---------------------------- MODULE Spec2Model ----------------------------
(***************************************************************************)
(* xz-compat: the LZMA range decoder, the LZMA core, the LZMA2 framer      *)
(* (buffer, sink and Transform decoders) and the XZ container decoders     *)
(* (decodeXZ and createXZDecoder), translated from the TypeScript source.  *)
(*                                                                         *)
(* Bytes are 0..255.  Buffers are sequences of bytes; the source's         *)
(* 0-based offsets are kept, so the byte at offset o of buffer b is        *)
(* b[o + 1].  An unsigned 32-bit word is a pair <<hi, lo>> of 16-bit       *)
(* halves, because the checker's integers are 32-bit signed.               *)
(***************************************************************************)
EXTENDS Integers, Sequences, FiniteSets, TLC

(***************************************************************************)
(* 32-bit words                                                            *)
(***************************************************************************)
U16 == 2 ^ 16

\* the value a read of never-written memory is reported as in an output
Uninit == 256

Lt32(a, b) == a[1] < b[1] \/ (a[1] = b[1] /\ a[2] < b[2])

Sub32(a, b) ==
  LET lo == a[2] - b[2]
      hi == a[1] - b[1] - (IF lo < 0 THEN 1 ELSE 0)
  IN  <<hi % U16, lo % U16>>

\* (w << 8) | byte, as a 32-bit word
Shl8Or(w, byte) == <<(w[1] % 256) * 256 + (w[2] \div 256), (w[2] % 256) * 256 + byte>>

\* w >>> 1
Shr1(w) == <<w[1] \div 2, (w[1] % 2) * 32768 + (w[2] \div 2)>>

\* hi * 2^16 + lo, modulo 2^32, for lo < 2^31
Carry32(hi, lo) == <<(hi + (lo \div U16)) % U16, lo % U16>>

\* (w >>> 11) * prob, modulo 2^32; prob < 2^15, so no product leaves 31 bits
MulShr11(w, prob) ==
  Carry32((w[1] * prob) \div 2048, ((w[1] * prob) % 2048) * 32 + (w[2] \div 2048) * prob)

(***************************************************************************)
(* LZMA constants and state transitions (lzma/types.ts)                    *)
(***************************************************************************)
kNumStates == 12
kMatchMinLen == 2
kNumAlignBits == 4
kStartPosModelIndex == 4
kEndPosModelIndex == 14
kNumFullDistances == 128
kNumLenToPosStates == 4
kNumPosSlotBits == 6
kNumLitContextBitsMax == 8
kNumPosStatesBitsMax == 4
kBitModelTotal == 2048
kNumMoveBits == 5
kProbInitValue == 1024

Pow2(n) == 2 ^ n

\* stateUpdateChar without its table: every literal leads to state 0
stateUpdateCharZero(state) == 0

stateUpdateChar(state) == IF state < 4 THEN 0 ELSE IF state < 10 THEN state - 3 ELSE state - 6
stateUpdateMatch(state) == IF state < 7 THEN 7 ELSE 10
stateUpdateRep(state) == IF state < 7 THEN 8 ELSE 11
stateUpdateShortRep(state) == IF state < 7 THEN 9 ELSE 11
stateIsCharState(state) == state < 7

getLenToPosState(len) ==
  IF len - kMatchMinLen < kNumLenToPosStates THEN len - kMatchMinLen ELSE kNumLenToPosStates - 1

(***************************************************************************)
(* Probability tables.  All tables of one LzmaDecoder are one sparse map   *)
(* from a table offset to the probability; an absent entry has the value   *)
(* kProbInitValue that initBitModels gives it.                             *)
(***************************************************************************)
IsMatchBase == 0
IsRepBase == 192
IsRepG0Base == 204
IsRepG1Base == 216
IsRepG2Base == 228
IsRep0LongBase == 240
PosSlotBase == 432
PosDecodersBase == 688
PosAlignBase == 802
LenDecoderBase == 818
RepLenDecoderBase == 1332
LiteralBase == 1846

\* offsets inside one LenDecoder: choice[2], lowCoder[16][8], midCoder[16][8], highCoder[256]
LenChoice == 0
LenLow(posState) == 2 + posState * 8
LenMid(posState) == 130 + posState * 8
LenHigh == 258

\* one LiteralDecoder2 has 0x300 probabilities
LiteralCoder(index) == LiteralBase + index * 768

GetProb(probs, k) == IF k \in DOMAIN probs THEN probs[k] ELSE kProbInitValue

SetProb(probs, k, v) == [j \in (DOMAIN probs) \cup {k} |-> IF j = k THEN v ELSE probs[j]]

NoProbs == [j \in {} |-> 0]

(***************************************************************************)
(* One LzmaDecoder instance (sync/LzmaDecoder.ts) with its OutWindow and   *)
(* its RangeDecoder is one record:                                         *)
(*   probs, lc, lp, numPosStates, posStateMask      tables and properties  *)
(*   dictionarySize, dictionarySizeCheck                                   *)
(*   state, rep0..rep3, prevByte, totalPos          LZMA state             *)
(*   buffer, windowSize, pos, streamPos, sink, written     OutWindow; sink *)
(*       says whether a sink was given, written is what it received        *)
(*   input, rpos, code, range                       RangeDecoder           *)
(*   output, outputLen, outPos, cumPos              locals of the decode   *)
(*       loop: the caller's buffer (sparse) and the two cursors            *)
(*   bit, val                                       result of the last     *)
(*       decodeBit / tree decode                                           *)
(*   len, brk                                       the decoded match      *)
(*       length; whether the loop was left at the end marker               *)
(*   junk                                           what never-written     *)
(*       memory holds                                                      *)
(*   matches                                        observation only: one  *)
(*       entry per match, rep match and short rep that reached the         *)
(*       distance check or was refused before it                           *)
(*   err                                            "" or the thrown error *)
(***************************************************************************)
NoErr == ""
ErrInvalidDistance == "LZMA: Invalid distance"
ErrTypeError == "TypeError"

NoBytes == [j \in {} |-> 0]

NewLzmaDecoder(hasSink, junk) ==
  [probs |-> NoProbs, lc |-> 0, lp |-> 0, numPosStates |-> 0, posStateMask |-> 0,
   dictionarySize |-> -1, dictionarySizeCheck |-> -1,
   state |-> 0, rep0 |-> 0, rep1 |-> 0, rep2 |-> 0, rep3 |-> 0, prevByte |-> 0, totalPos |-> 0,
   buffer |-> NoBytes, windowSize |-> 0, pos |-> 0, streamPos |-> 0,
   sink |-> hasSink, written |-> <<>>,
   input |-> <<>>, rpos |-> 0, code |-> <<0, 0>>, range |-> <<0, 0>>,
   output |-> NoBytes, outputLen |-> 0, outPos |-> 0, cumPos |-> 0,
   bit |-> 0, val |-> 0, len |-> 0, brk |-> FALSE, junk |-> junk, matches |-> <<>>,
   err |-> NoErr]

(***************************************************************************)
(* RangeDecoder (sync/RangeDecoder.ts)                                     *)
(***************************************************************************)
\* this.input[this.pos++] inside "(code << 8) | ...": a read past the end is undefined, and
\* "x | undefined" is x
RangeDecoder_readByte(m) == IF m.rpos >= 0 /\ m.rpos < Len(m.input) THEN m.input[m.rpos + 1] ELSE 0

RangeDecoder_shiftIn(m) ==
  [m EXCEPT !.code = Shl8Or(m.code, RangeDecoder_readByte(m)), !.rpos = m.rpos + 1]

RangeDecoder_setInput(m, input, offset) ==
  LET m0 == [m EXCEPT !.input = input, !.rpos = offset + 1, !.code = <<0, 0>>,
                      !.range = <<U16 - 1, U16 - 1>>]
  IN  RangeDecoder_shiftIn(RangeDecoder_shiftIn(RangeDecoder_shiftIn(RangeDecoder_shiftIn(m0))))

RangeDecoder_normalize(m) ==
  IF m.range[1] < 256
    THEN [RangeDecoder_shiftIn(m) EXCEPT !.range = Shl8Or(m.range, 0)]
    ELSE m

\* probs[index] -= prob >>> 4: the update with a move of four bits instead of kNumMoveBits
RangeDecoder_probDown4(prob) == (prob - (prob \div 16)) % U16

\* probs[index] -= prob >>> 5
RangeDecoder_probDown(prob) == (prob - (prob \div 32)) % U16

\* the two branches of decodeBit for prob = probs[index] and newBound = (range >>> 11) * prob;
\* probs[index] is a Uint16Array element
RangeDecoder_decodeBitAt(m, index, prob, newBound) ==
  IF Lt32(m.code, newBound)
    THEN RangeDecoder_normalize(
           [m EXCEPT !.range = newBound,
                     !.probs = SetProb(m.probs, index, (prob + ((kBitModelTotal - prob) \div 32)) % U16),
                     !.bit = 0])
    ELSE RangeDecoder_normalize(
           [m EXCEPT !.range = Sub32(m.range, newBound),
                     !.code = Sub32(m.code, newBound),
                     !.probs = SetProb(m.probs, index, RangeDecoder_probDown(prob)),
                     !.bit = 1])

RangeDecoder_decodeBit(m, index) ==
  RangeDecoder_decodeBitAt(m, index, GetProb(m.probs, index),
                           MulShr11(m.range, GetProb(m.probs, index)))

\* t = (code - range) >>> 31 is the top bit of the difference; val accumulates
\* (result << 1) | (1 - t); numTotalBits <= 26, so no 32-bit wrap
RECURSIVE RangeDecoder_decodeDirectBits(_, _, _)
RangeDecoder_decodeDirectBits(m, numTotalBits, result) ==
  IF numTotalBits <= 0 THEN [m EXCEPT !.val = result]
  ELSE IF Sub32(m.code, Shr1(m.range))[1] >= 32768
    THEN RangeDecoder_decodeDirectBits(
           RangeDecoder_normalize([m EXCEPT !.range = Shr1(m.range)]), numTotalBits - 1, result * 2)
    ELSE RangeDecoder_decodeDirectBits(
           RangeDecoder_normalize([m EXCEPT !.range = Shr1(m.range),
                                            !.code = Sub32(m.code, Shr1(m.range))]),
           numTotalBits - 1, result * 2 + 1)

\* BitTreeDecoder.decode over the models at base: val is the symbol
RECURSIVE BitTreeDecoder_decode(_, _, _, _, _)
BitTreeDecoder_decode(m, base, numBitLevels, i, mm) ==
  IF i = 0 THEN [m EXCEPT !.val = mm - Pow2(numBitLevels)]
  ELSE LET next(m1) == BitTreeDecoder_decode(m1, base, numBitLevels, i - 1, mm * 2 + m1.bit)
       IN  next(RangeDecoder_decodeBit(m, base + mm))

\* BitTreeDecoder.reverseDecode and reverseDecodeFromArray (startIndex = base)
RECURSIVE reverseDecodeFromArray(_, _, _, _, _, _)
reverseDecodeFromArray(m, base, numBitLevels, i, mm, symbol) ==
  IF i >= numBitLevels THEN [m EXCEPT !.val = symbol]
  ELSE LET next(m1) == reverseDecodeFromArray(m1, base, numBitLevels, i + 1, mm * 2 + m1.bit,
                                               symbol + m1.bit * Pow2(i))
       IN  next(RangeDecoder_decodeBit(m, base + mm))

(***************************************************************************)
(* LenDecoder, LiteralDecoder2, LiteralDecoder                             *)
(***************************************************************************)
\* LenDecoder.decode after the first choice bit (m1.bit); lowCoder[posState] and
\* midCoder[posState] exist only below numPosStates (LenDecoder.create)
LenDecoder_decodeChoice(m1, base, posState) ==
  LET plus(m3, n) == [m3 EXCEPT !.val = n + m3.val]
      second(m2) ==
        IF m2.bit = 0
          THEN IF posState >= m2.numPosStates THEN [m2 EXCEPT !.err = ErrTypeError]
               ELSE plus(BitTreeDecoder_decode(m2, base + LenMid(posState), 3, 3, 1), 8)
          ELSE plus(BitTreeDecoder_decode(m2, base + LenHigh, 8, 8, 1), 16)
  IN  IF m1.bit = 0
        THEN IF posState >= m1.numPosStates THEN [m1 EXCEPT !.err = ErrTypeError]
             ELSE BitTreeDecoder_decode(m1, base + LenLow(posState), 3, 3, 1)
        ELSE second(RangeDecoder_decodeBit(m1, base + LenChoice + 1))

LenDecoder_decode(m, base, posState) ==
  LenDecoder_decodeChoice(RangeDecoder_decodeBit(m, base + LenChoice), base, posState)

RECURSIVE LiteralDecoder2_decodeNormal(_, _, _)
LiteralDecoder2_decodeNormal(m, coder, symbol) ==
  IF symbol >= 256 THEN [m EXCEPT !.val = symbol % 256]
  ELSE LET next(m1) == LiteralDecoder2_decodeNormal(m1, coder, symbol * 2 + m1.bit)
       IN  next(RangeDecoder_decodeBit(m, coder + symbol))

\* i counts the match byte's bits from the top: matchBit = (matchByte >> 7) & 1; matchByte <<= 1
RECURSIVE LiteralDecoder2_decodeWithMatchByte(_, _, _, _, _)
LiteralDecoder2_decodeWithMatchByte(m, coder, matchByte, i, symbol) ==
  LET matchBit == (matchByte \div Pow2(7 - i)) % 2
      next(m1) ==
        IF matchBit # m1.bit THEN LiteralDecoder2_decodeNormal(m1, coder, symbol * 2 + m1.bit)
        ELSE IF symbol * 2 + m1.bit < 256
          THEN LiteralDecoder2_decodeWithMatchByte(m1, coder, matchByte, i + 1, symbol * 2 + m1.bit)
          ELSE [m1 EXCEPT !.val = (symbol * 2 + m1.bit) % 256]
  IN  next(RangeDecoder_decodeBit(m, coder + (1 + matchBit) * 256 + symbol))

\* index of the LiteralDecoder2 for (pos, prevByte); posMask = (1 << numPosBits) - 1
LiteralDecoder_getDecoder(m, pos, prevByte) ==
  (pos % Pow2(m.lp)) * Pow2(m.lc) + ((prevByte % 256) \div Pow2(8 - m.lc))

\* create(numPosBits, numPrevBits): the coders are dropped unless some exist and lc, lp are
\* the same; a dropped coder is a fresh one when next used
LiteralDecoder_create(m, lp, lc) ==
  IF m.lc = lc /\ m.lp = lp THEN m
  ELSE [m EXCEPT !.lp = lp, !.lc = lc,
                 !.probs = [j \in {k \in DOMAIN m.probs : k < LiteralBase} |-> m.probs[j]]]

(***************************************************************************)
(* OutWindow                                                               *)
(***************************************************************************)
OutWindow_create(m, windowSize) ==
  [m EXCEPT !.buffer = IF m.windowSize # windowSize THEN NoBytes ELSE m.buffer,
            !.windowSize = windowSize, !.pos = 0, !.streamPos = 0]

OutWindow_init(m, solid) == IF solid THEN m ELSE [m EXCEPT !.pos = 0, !.streamPos = 0]

OutWindow_read(m, pos) == IF pos \in DOMAIN m.buffer THEN m.buffer[pos] ELSE Uninit

OutWindow_flush(m) ==
  LET size == m.pos - m.streamPos
  IN  IF size > 0 /\ m.sink
        THEN [m EXCEPT !.written = Append(m.written,
                                     [i \in 1..size |-> OutWindow_read(m, m.streamPos + i - 1)]),
                       !.streamPos = m.pos]
        ELSE m

OutWindow_putByte(m, b) ==
  LET wrap(m1) ==
        IF m1.pos >= m1.windowSize
          THEN IF m1.sink THEN [OutWindow_flush(m1) EXCEPT !.pos = 0, !.streamPos = 0]
               ELSE [m1 EXCEPT !.pos = 0]
          ELSE m1
  IN  wrap([m EXCEPT !.buffer = [j \in (DOMAIN m.buffer) \cup {m.pos} |->
                                   IF j = m.pos THEN b ELSE m.buffer[j]],
                     !.pos = m.pos + 1])

OutWindow_getByte(m, distance) ==
  LET pos == m.pos - distance - 1
  IN  OutWindow_read(m, IF pos < 0 THEN pos + m.windowSize ELSE pos)

(***************************************************************************)
(* LzmaDecoder                                                             *)
(***************************************************************************)
Max(a, b) == IF a >= b THEN a ELSE b

LzmaDecoder_setDictionarySize(m, dictionarySize) ==
  IF dictionarySize < 0 THEN m
  ELSE IF m.dictionarySize # dictionarySize
    THEN OutWindow_create([m EXCEPT !.dictionarySize = dictionarySize,
                                    !.dictionarySizeCheck = Max(dictionarySize, 1)],
                          Max(Max(dictionarySize, 1), 4096))
    ELSE m

\* FALSE when the properties are refused
LzmaDecoder_setLcLpPb_ok(lc, lp, pb) ==
  ~(lc > kNumLitContextBitsMax \/ lp > 4 \/ pb > kNumPosStatesBitsMax)

\* LenDecoder.create only ever adds coders, so numPosStates never shrinks
LzmaDecoder_setLcLpPb(m, lc, lp, pb) ==
  IF ~LzmaDecoder_setLcLpPb_ok(lc, lp, pb) THEN m
  ELSE [LiteralDecoder_create(m, lp, lc) EXCEPT !.numPosStates = Max(m.numPosStates, Pow2(pb)),
                                               !.posStateMask = Pow2(pb) - 1]

LzmaDecoder_initProbabilities(m) == [m EXCEPT !.probs = NoProbs]

LzmaDecoder_resetProbabilities(m) ==
  [LzmaDecoder_initProbabilities(m) EXCEPT !.state = 0, !.rep0 = 0, !.rep1 = 0, !.rep2 = 0, !.rep3 = 0]

LzmaDecoder_resetDictionary(m) == [OutWindow_init(m, FALSE) EXCEPT !.totalPos = 0]

RECURSIVE LzmaDecoder_putBytes(_, _, _)
LzmaDecoder_putBytes(m, data, i) ==
  IF i > Len(data) THEN m ELSE LzmaDecoder_putBytes(OutWindow_putByte(m, data[i]), data, i + 1)

LzmaDecoder_feedUncompressed(m, data) ==
  [LzmaDecoder_putBytes(m, data, 1) EXCEPT
     !.totalPos = m.totalPos + Len(data),
     !.prevByte = IF Len(data) > 0 THEN data[Len(data)] ELSE m.prevByte]

LzmaDecoder_flushOutWindow(m) == OutWindow_flush(m)

\* output[outPos++] = b: a write outside the Buffer is dropped; decodeWithSink only counts
LzmaDecoder_emit(m, b, toBuffer) ==
  [m EXCEPT !.output = IF toBuffer /\ m.outPos >= 0 /\ m.outPos < m.outputLen
                         THEN [j \in (DOMAIN m.output) \cup {m.outPos} |->
                                 IF j = m.outPos THEN b ELSE m.output[j]]
                         ELSE m.output,
            !.outPos = m.outPos + 1]

LzmaDecoder_posState(m) == m.cumPos % (m.posStateMask + 1)

\* the value the decoder computes with when it read a never-written byte
Concrete(m, b) == IF b = Uninit THEN m.junk ELSE b

LzmaDecoder_literal(m, toBuffer) ==
  LET coder == LiteralCoder(LiteralDecoder_getDecoder(m, m.cumPos, Concrete(m, m.prevByte)))
      put(m1) ==
        [LzmaDecoder_emit(OutWindow_putByte([m1 EXCEPT !.prevByte = m1.val], m1.val), m1.val, toBuffer)
           EXCEPT !.state = stateUpdateChar(m.state), !.cumPos = m.cumPos + 1]
  IN  put(IF ~stateIsCharState(m.state)
            THEN LiteralDecoder2_decodeWithMatchByte(
                   m, coder, Concrete(m, OutWindow_getByte(m, m.rep0)), 0, 1)
            ELSE LiteralDecoder2_decodeNormal(m, coder, 1))

\* the end of the rep branch: sel.len = 1 marks a short rep, any other rep decodes its length
LzmaDecoder_repLen(sel) ==
  LET long(ld) == [ld EXCEPT !.len = kMatchMinLen + ld.val, !.state = stateUpdateRep(sel.state)]
  IN  IF sel.len = 1 THEN [sel EXCEPT !.state = stateUpdateShortRep(sel.state)]
      ELSE long(LenDecoder_decode(sel, RepLenDecoderBase, LzmaDecoder_posState(sel)))

\* a rep branch that leaves the rep queue as it is and decodes the length
LzmaDecoder_repKeep(m1) == LzmaDecoder_repLen([m1 EXCEPT !.len = 0])

\* the rep branch up to the length: sets rep0..rep3, state and len
LzmaDecoder_rep(m1) ==
  LET posState == LzmaDecoder_posState(m1)
      s == m1.state
      g2(g) ==
        IF g.bit = 0
          THEN [g EXCEPT !.rep2 = m1.rep1, !.rep1 = m1.rep0, !.rep0 = m1.rep2, !.len = 0]
          ELSE [g EXCEPT !.rep3 = m1.rep2, !.rep2 = m1.rep1, !.rep1 = m1.rep0, !.rep0 = m1.rep3,
                         !.len = 0]
      g1(g) ==
        IF g.bit = 0 THEN [g EXCEPT !.rep1 = m1.rep0, !.rep0 = m1.rep1, !.len = 0]
        ELSE g2(RangeDecoder_decodeBit(g, IsRepG2Base + s))
      rep0Long(m3) == [m3 EXCEPT !.len = IF m3.bit = 0 THEN 1 ELSE 0]
      g0(m2) ==
        IF m2.bit = 0 THEN rep0Long(RangeDecoder_decodeBit(m2, IsRep0LongBase + s * 16 + posState))
        ELSE g1(RangeDecoder_decodeBit(m2, IsRepG1Base + s))
  IN  LzmaDecoder_repLen(g0(RangeDecoder_decodeBit(m1, IsRepG0Base + s)))

\* (2 | (posSlot & 1)) << numDirectBits as a signed 32-bit value
LzmaDecoder_posBase(posSlot) ==
  LET numDirectBits == (posSlot \div 2) - 1
  IN  IF numDirectBits < 30 THEN (2 + (posSlot % 2)) * Pow2(numDirectBits)
      ELSE IF posSlot % 2 = 0 THEN -2147483647 - 1 ELSE -1073741824

\* the distance of a normal match from its position slot (ps.val): sets rep0, and brk or err
LzmaDecoder_matchDistance(ps) ==
  LET posSlot == ps.val
      numDirectBits == (posSlot \div 2) - 1
      base == LzmaDecoder_posBase(posSlot)
      far(rep0, al) ==
        IF rep0 < 0
          THEN IF rep0 = -1 THEN [al EXCEPT !.rep0 = rep0, !.brk = TRUE]
               ELSE [al EXCEPT !.rep0 = rep0, !.err = ErrInvalidDistance]
          ELSE [al EXCEPT !.rep0 = rep0]
      aligned(high, al) == far(base + high * 16 + al.val, al)
      direct(db) == aligned(db.val, reverseDecodeFromArray(db, PosAlignBase, kNumAlignBits, 0, 1, 0))
      near(rd) == [rd EXCEPT !.rep0 = base + rd.val]
  IN  IF posSlot >= kStartPosModelIndex
        THEN IF posSlot < kEndPosModelIndex
               THEN near(reverseDecodeFromArray(ps, PosDecodersBase + base - posSlot - 1,
                                                numDirectBits, 0, 1, 0))
               ELSE direct(RangeDecoder_decodeDirectBits(ps, numDirectBits - kNumAlignBits, 0))
        ELSE [ps EXCEPT !.rep0 = posSlot]

\* the normal-match branch up to the distance: sets rep0..rep3, state, len, and brk or err
LzmaDecoder_match(m1) ==
  LET slot(ld) ==
        IF ld.err # NoErr THEN ld
        ELSE LzmaDecoder_matchDistance(
               BitTreeDecoder_decode(
                 [ld EXCEPT !.len = kMatchMinLen + ld.val, !.state = stateUpdateMatch(m1.state)],
                 PosSlotBase + getLenToPosState(kMatchMinLen + ld.val) * 64, kNumPosSlotBits,
                 kNumPosSlotBits, 1))
  IN  slot(LenDecoder_decode([m1 EXCEPT !.rep3 = m1.rep2, !.rep2 = m1.rep1, !.rep1 = m1.rep0],
                             LenDecoderBase, LzmaDecoder_posState(m1)))

RECURSIVE LzmaDecoder_copy(_, _, _)
LzmaDecoder_copy(m, len, toBuffer) ==
  IF len <= 0 THEN m
  ELSE LET put(b) == LzmaDecoder_copy(LzmaDecoder_emit(OutWindow_putByte(m, b), b, toBuffer),
                                      len - 1, toBuffer)
       IN  put(OutWindow_getByte(m, m.rep0))

\* the distance check in front of the copy
LzmaDecoder_distanceOk(m) == ~(m.rep0 >= m.cumPos \/ m.rep0 >= m.dictionarySizeCheck)

\* one pass of the while loop of decodeWithSink / decodeToBuffer
LzmaDecoder_symbol(m, toBuffer) ==
  LET m0 == RangeDecoder_decodeBit(m, IsMatchBase + m.state * 16 + LzmaDecoder_posState(m))
      m1 == RangeDecoder_decodeBit(m0, IsRepBase + m.state)
      seen(mt, copied) ==
        [rep0 |-> mt.rep0, len |-> mt.len, cumPos |-> mt.cumPos,
         dictionarySize |-> mt.dictionarySize, copied |-> copied]
      done(mt, cp) ==
        [cp EXCEPT !.cumPos = mt.cumPos + mt.len, !.prevByte = OutWindow_getByte(cp, 0),
                   !.matches = Append(mt.matches, seen(mt, mt.len))]
      checked(mt) ==
        IF mt.brk \/ (mt.err # NoErr /\ mt.err # ErrInvalidDistance) THEN mt
        ELSE IF mt.err = ErrInvalidDistance \/ ~LzmaDecoder_distanceOk(mt)
          THEN [mt EXCEPT !.err = ErrInvalidDistance, !.matches = Append(mt.matches, seen(mt, 0))]
        ELSE done(mt, LzmaDecoder_copy(mt, mt.len, toBuffer))
  IN  IF m0.bit = 0 THEN LzmaDecoder_literal(m0, toBuffer)
      ELSE checked(IF m1.bit = 1 THEN LzmaDecoder_rep(m1) ELSE LzmaDecoder_match(m1))

\* which branch the next pass of the loop takes, from the bits it decodes first: a literal,
\* a normal match, a short rep, or a rep match with rep0, rep1, rep2 or rep3
LzmaDecoder_event(m) ==
  LET s == m.state
      posState == LzmaDecoder_posState(m)
      m0 == RangeDecoder_decodeBit(m, IsMatchBase + s * 16 + posState)
      m1 == RangeDecoder_decodeBit(m0, IsRepBase + s)
      m2 == RangeDecoder_decodeBit(m1, IsRepG0Base + s)
      m3 == RangeDecoder_decodeBit(m2, IsRep0LongBase + s * 16 + posState)
      g1 == RangeDecoder_decodeBit(m2, IsRepG1Base + s)
      g2 == RangeDecoder_decodeBit(g1, IsRepG2Base + s)
  IN  IF m0.bit = 0 THEN "literal"
      ELSE IF m1.bit = 0 THEN "match"
      ELSE IF m2.bit = 0 THEN (IF m3.bit = 0 THEN "shortrep" ELSE "rep0")
      ELSE IF g1.bit = 0 THEN "rep1"
      ELSE IF g2.bit = 0 THEN "rep2"
      ELSE "rep3"

RECURSIVE LzmaDecoder_loop(_, _, _)
LzmaDecoder_loop(m, outEnd, toBuffer) ==
  IF m.err # NoErr \/ m.brk \/ ~(m.outPos < outEnd) THEN m
  ELSE LzmaDecoder_loop(LzmaDecoder_symbol(m, toBuffer), outEnd, toBuffer)

\* the statements of decodeToBuffer and decodeWithSink in front of the loop
LzmaDecoder_decodeCore_start(m0, outputOffset, solid) ==
  IF ~solid
    THEN [LzmaDecoder_initProbabilities(OutWindow_init(m0, FALSE)) EXCEPT
            !.state = 0, !.rep0 = 0, !.rep1 = 0, !.rep2 = 0, !.rep3 = 0,
            !.prevByte = 0, !.totalPos = 0, !.cumPos = 0,
            !.outPos = outputOffset, !.brk = FALSE, !.err = NoErr]
    ELSE [OutWindow_init(m0, TRUE) EXCEPT
            !.cumPos = m0.totalPos, !.outPos = outputOffset, !.brk = FALSE, !.err = NoErr]

\* the statements after the loop
LzmaDecoder_decodeCore_finish(r, outputOffset) ==
  IF r.err # NoErr THEN r
  ELSE [r EXCEPT !.totalPos = r.cumPos, !.val = r.outPos - outputOffset, !.brk = FALSE]

\* decodeWithSink (toBuffer = FALSE, outputOffset = 0) and decodeToBuffer (toBuffer = TRUE):
\* val is the returned byte count
LzmaDecoder_decodeCore(m, input, inputOffset, outSize, outputOffset, solid, toBuffer) ==
  LzmaDecoder_decodeCore_finish(
    LzmaDecoder_loop(LzmaDecoder_decodeCore_start(RangeDecoder_setInput(m, input, inputOffset),
                                                  outputOffset, solid),
                     outputOffset + outSize, toBuffer),
    outputOffset)

LzmaDecoder_decodeWithSink(m, input, inputOffset, outSize, solid) ==
  LzmaDecoder_decodeCore(m, input, inputOffset, outSize, 0, solid, FALSE)

LzmaDecoder_decodeToBuffer(m, input, inputOffset, outSize, outputOffset, solid) ==
  LzmaDecoder_decodeCore(m, input, inputOffset, outSize, outputOffset, solid, TRUE)

\* the bytes 0..n-1 of the caller's buffer; a byte never written is Uninit
OutputBytes(m, n) == [i \in 1..n |-> IF (i - 1) \in DOMAIN m.output THEN m.output[i - 1] ELSE Uninit]

\* decode(): a fresh allocBufferUnsafe(outSize) is filled by decodeToBuffer and returned whole
LzmaDecoder_decode(m, input, inputOffset, outSize, solid) ==
  LET result(r) == [m |-> [r EXCEPT !.output = m.output, !.outputLen = m.outputLen],
                    out |-> OutputBytes(r, outSize)]
  IN  result(LzmaDecoder_decodeToBuffer([m EXCEPT !.output = NoBytes, !.outputLen = outSize],
                                        input, inputOffset, outSize, 0, solid))

(***************************************************************************)
(* LZMA2 chunk headers (lzma/index.ts)                                     *)
(***************************************************************************)
ErrInvalidControl == "Invalid LZMA2 control byte"
ErrTruncatedHeader == "Truncated LZMA2 chunk header"
ErrTruncatedStream == "Truncated LZMA2 stream"
ErrNoProperties == "LZMA chunk without properties"
ErrInvalidProperties == "Invalid LZMA properties"
ErrRequiresProps == "LZMA2 requires properties byte"
ErrDictProp == "Invalid LZMA2 dictionary size property"

\* the source's input[o]
At(input, o) == input[o + 1]

\* Buffer.slice(start, end): a negative index counts from the end, and both are clamped
Slice(input, start, end) ==
  LET clamp(x) == IF x < 0 THEN (IF Len(input) + x < 0 THEN 0 ELSE Len(input) + x)
                  ELSE IF x > Len(input) THEN Len(input) ELSE x
      st == clamp(start)
      e == clamp(end)
  IN  IF st >= e THEN <<>> ELSE SubSeq(input, st + 1, e)

NoChunk ==
  [success |-> FALSE, needBytes |-> 0, err |-> NoErr, type |-> "none", headerSize |-> 0,
   dictReset |-> FALSE, stateReset |-> FALSE, newProps |-> FALSE, lc |-> 0, lp |-> 0, pb |-> 0,
   uncompSize |-> 0, compSize |-> 0, control |-> 0]

\* the mutant of parseLzma2ChunkHeader_invalid: a reserved control byte ends the stream
parseLzma2ChunkHeader_end(control) ==
  [NoChunk EXCEPT !.success = TRUE, !.type = "end", !.headerSize = 1]

\* the throw that ends parseLzma2ChunkHeader: control is in 0x03..0x7F
parseLzma2ChunkHeader_invalid(control) == [NoChunk EXCEPT !.err = ErrInvalidControl]

\* a size read with its two bytes exchanged
parseLzma2ChunkHeader_sizeLE(high, low) == low * 256 + high + 1

\* ((input[offset + 1] << 8) | input[offset + 2]) + 1, and the same for compSize
parseLzma2ChunkHeader_size(high, low) == high * 256 + low + 1

parseLzma2ChunkHeader(input, offset) ==
  IF offset >= Len(input) THEN [NoChunk EXCEPT !.needBytes = 1]
  ELSE LET control == At(input, offset)
           hasNewProps == control >= 192
           minHeaderSize == IF hasNewProps THEN 6 ELSE 5
           propsByte == At(input, offset + 5)
           remainder == propsByte \div 9
       IN  IF control = 0
             THEN [NoChunk EXCEPT !.success = TRUE, !.type = "end", !.headerSize = 1]
           ELSE IF control = 1 \/ control = 2
             THEN IF offset + 3 > Len(input)
                    THEN [NoChunk EXCEPT !.needBytes = 3 - (Len(input) - offset)]
                    ELSE [NoChunk EXCEPT !.success = TRUE, !.type = "uncompressed", !.headerSize = 3,
                            !.dictReset = (control = 1), !.control = control,
                            !.uncompSize = parseLzma2ChunkHeader_size(At(input, offset + 1),
                                                                      At(input, offset + 2))]
           ELSE IF control >= 128
             THEN IF offset + minHeaderSize > Len(input)
                    THEN [NoChunk EXCEPT !.needBytes = minHeaderSize - (Len(input) - offset)]
                    ELSE [NoChunk EXCEPT !.success = TRUE, !.type = "lzma",
                            !.headerSize = minHeaderSize, !.control = control,
                            !.dictReset = (control >= 224), !.stateReset = (control >= 160),
                            !.newProps = hasNewProps,
                            !.lc = IF hasNewProps THEN propsByte % 9 ELSE 0,
                            !.lp = IF hasNewProps THEN remainder % 5 ELSE 0,
                            !.pb = IF hasNewProps THEN remainder \div 5 ELSE 0,
                            !.uncompSize = (control % 32) * 65536
                                           + parseLzma2ChunkHeader_size(At(input, offset + 1),
                                                                        At(input, offset + 2)),
                            !.compSize = parseLzma2ChunkHeader_size(At(input, offset + 3),
                                                                    At(input, offset + 4))]
           ELSE parseLzma2ChunkHeader_invalid(control)

hasCompleteChunk(input, offset) ==
  LET complete(result, totalSize) ==
        IF ~result.success THEN result
        ELSE IF offset + totalSize > Len(input)
          THEN [result EXCEPT !.success = FALSE, !.needBytes = totalSize - (Len(input) - offset)]
          ELSE result
      sized(result) ==
        complete(result, result.headerSize + (IF result.type = "uncompressed" THEN result.uncompSize
                                              ELSE result.compSize))
  IN  sized(parseLzma2ChunkHeader(input, offset))

\* base << exp as a signed 32-bit value (prop <= 39)
parseLzma2DictionarySize(prop) ==
  LET base == 2 + (prop % 2)
      exp == (prop \div 2) + 11
  IN  IF exp < 30 THEN base * Pow2(exp)
      ELSE IF base = 2 THEN -2147483647 - 1 ELSE -1073741824

\* parseLzma2DictionarySize for every prop: the number returned, as the two 16-bit halves
\* of its 32-bit pattern, and whether it is negative as a JavaScript number
parseLzma2DictionarySize_result(prop) ==
  IF prop > 40 THEN [err |-> ErrDictProp, hi |-> 0, lo |-> 0, negative |-> FALSE]
  ELSE IF prop = 40 THEN [err |-> NoErr, hi |-> 65535, lo |-> 65535, negative |-> FALSE]
  ELSE LET size == parseLzma2DictionarySize(prop)
       IN  [err |-> NoErr, hi |-> (size \div 65536) % 65536, lo |-> size % 65536,
            negative |-> size < 0]

(***************************************************************************)
(* Lzma2Decoder (sync/Lzma2Decoder.ts).  A decode in progress is a record  *)
(*   m          the LzmaDecoder                                            *)
(*   offset     the input offset of the next chunk header                  *)
(*   prealloc   whether outputBuffer was allocated (m.output, m.outputLen) *)
(*   outputPos  the write position in outputBuffer                         *)
(*   chunks     the concatenation of outputChunks                          *)
(*   totalBytes the byte count decodeWithSink returns                      *)
(*   log        one entry per chunk whose data the decoder was given       *)
(*              (observation only):                                        *)
(*                chunk     the parsed header,  off  its offset            *)
(*                totalPos  the decoder's totalPos when the chunk's data   *)
(*                          is about to be decoded                         *)
(*                window    the last totalPos bytes of the dictionary then *)
(*                outputPos the number of bytes output before the chunk    *)
(*                count     the number of bytes the chunk produced         *)
(*                dict      the bytes the chunk put into the dictionary    *)
(*                consumed  the input bytes the range decoder read         *)
(*                err       the error the chunk's decode threw (count and  *)
(*                          consumed are 0 then)                           *)
(*   done, err                                                             *)
(***************************************************************************)
MAX_SAFE_SIZE == 268435456

\* the dictionary as the decoder sees it: the byte at distance totalPos - 1 first
WindowView(m) == [i \in 1..m.totalPos |-> OutWindow_getByte(m, m.totalPos - i)]

Lzma2Decoder_new(prop, hasSink, junk) ==
  LzmaDecoder_setDictionarySize(NewLzmaDecoder(hasSink, junk), parseLzma2DictionarySize(prop))

\* the constructor of Lzma2Decoder for properties[0] = prop: the size parsed and what
\* setDictionarySize made of the decoder; the window of prop 40 (4 GiB - 1) is not built
Lzma2Decoder_constructor(prop, junk) ==
  LET size == parseLzma2DictionarySize_result(prop)
      made(m) == [err |-> NoErr, hi |-> size.hi, lo |-> size.lo, negative |-> size.negative,
                  dictionarySize |-> m.dictionarySize, windowSize |-> m.windowSize]
  IN  IF size.err # NoErr \/ prop = 40
        THEN [err |-> size.err, hi |-> size.hi, lo |-> size.lo, negative |-> size.negative,
              dictionarySize |-> -1, windowSize |-> 0]
      ELSE made(Lzma2Decoder_new(prop, FALSE, junk))

\* the resets in front of a chunk's data, in the order of decode() and decodeWithSink()
Lzma2Decoder_resets(m, chunk) ==
  LET props(m2) == IF chunk.newProps THEN LzmaDecoder_setLcLpPb(m2, chunk.lc, chunk.lp, chunk.pb) ELSE m2
      state(m1) == props(IF chunk.stateReset THEN LzmaDecoder_resetProbabilities(m1) ELSE m1)
  IN  state(IF chunk.dictReset THEN LzmaDecoder_resetDictionary(m) ELSE m)

useSolid(chunk) == ~chunk.stateReset \/ (chunk.stateReset /\ ~chunk.dictReset)

LogEntry(chunk, off, m, after, outputPos, count, consumed) ==
  [chunk |-> chunk, off |-> off, totalPos |-> m.totalPos, window |-> WindowView(m),
   outputPos |-> outputPos, count |-> count, consumed |-> consumed,
   dict |-> [i \in 1..count |-> OutWindow_getByte(after, count - i)], err |-> after.err]

\* copy of src into the sparse buffer at position at; what does not fit is dropped
CopyInto(m, src, at) ==
  [m EXCEPT !.output = [j \in (DOMAIN m.output) \cup {k \in at..(at + Len(src) - 1) : k < m.outputLen} |->
                          IF j >= at /\ j < at + Len(src) THEN src[j - at + 1] ELSE m.output[j]]]

\* one pass of the while loop of Lzma2Decoder.decode
Lzma2Decoder_decodeStep(L, input) ==
  LET chunk == parseLzma2ChunkHeader(input, L.offset)
      dataOffset == L.offset + chunk.headerSize
      m == Lzma2Decoder_resets(L.m, chunk)
      uncompData == Slice(input, dataOffset, dataOffset + chunk.uncompSize)
      uncompressed(mu) ==
        [L EXCEPT !.m = mu,
                  !.outputPos = IF L.prealloc THEN L.outputPos + Len(uncompData) ELSE L.outputPos,
                  !.chunks = IF L.prealloc THEN L.chunks ELSE L.chunks \o uncompData,
                  !.offset = dataOffset + chunk.uncompSize,
                  !.log = Append(L.log, LogEntry(chunk, L.offset, m, mu, Len(L.chunks) + L.outputPos,
                                                 Len(uncompData), 0))]
      toBuffer(mb) ==
        IF mb.err # NoErr
          THEN [L EXCEPT !.m = mb, !.err = mb.err,
                         !.log = Append(L.log, LogEntry(chunk, L.offset, m, mb, L.outputPos, 0, 0))]
        ELSE [L EXCEPT !.m = mb,
                       !.outputPos = L.outputPos + mb.val,
                       !.offset = dataOffset + chunk.compSize,
                       !.log = Append(L.log, LogEntry(chunk, L.offset, m, mb, L.outputPos, mb.val,
                                                      mb.rpos - dataOffset))]
      toChunk(dc) ==
        IF dc.m.err # NoErr
          THEN [L EXCEPT !.m = dc.m, !.err = dc.m.err,
                         !.log = Append(L.log, LogEntry(chunk, L.offset, m, dc.m, Len(L.chunks), 0, 0))]
        ELSE [L EXCEPT !.m = dc.m,
                       !.chunks = L.chunks \o dc.out,
                       !.offset = dataOffset + chunk.compSize,
                       !.log = Append(L.log, LogEntry(chunk, L.offset, m, dc.m, Len(L.chunks),
                                                      dc.m.val, dc.m.rpos))]
  IN  IF chunk.err # NoErr THEN [L EXCEPT !.err = chunk.err]
      ELSE IF ~chunk.success THEN [L EXCEPT !.err = ErrTruncatedHeader]
      ELSE IF chunk.type = "end" THEN [L EXCEPT !.done = TRUE]
      ELSE IF chunk.type = "uncompressed"
        THEN uncompressed(LzmaDecoder_feedUncompressed(
                            IF L.prealloc THEN CopyInto(m, uncompData, L.outputPos) ELSE m, uncompData))
      ELSE IF L.prealloc
        THEN toBuffer(LzmaDecoder_decodeToBuffer(m, input, dataOffset, chunk.uncompSize, L.outputPos,
                                                 useSolid(chunk)))
        ELSE toChunk(LzmaDecoder_decode(m, Slice(input, dataOffset, dataOffset + chunk.compSize), 0,
                                        chunk.uncompSize, useSolid(chunk)))

RECURSIVE Lzma2Decoder_decodeLoop(_, _)
Lzma2Decoder_decodeLoop(L, input) ==
  IF L.done \/ L.err # NoErr THEN L ELSE Lzma2Decoder_decodeLoop(Lzma2Decoder_decodeStep(L, input), input)

\* unpackSize = 0 stands for an absent unpackSize ("unpackSize && ..." treats both alike)
Lzma2Decoder_decode(m, input, unpackSize) ==
  LET prealloc == unpackSize > 0 /\ unpackSize <= MAX_SAFE_SIZE
      result(L) ==
        [err |-> L.err, log |-> L.log, matches |-> L.m.matches, junk |-> m.junk,
         out |-> IF L.err # NoErr THEN <<>>
                 ELSE IF prealloc
                   THEN OutputBytes(L.m, IF L.outputPos < unpackSize THEN L.outputPos ELSE unpackSize)
                   ELSE L.chunks,
         ret |-> 0, written |-> <<>>]
  IN  result(Lzma2Decoder_decodeLoop(
               [m |-> [m EXCEPT !.output = NoBytes, !.outputLen = IF prealloc THEN unpackSize ELSE 0],
                offset |-> 0, prealloc |-> prealloc, outputPos |-> 0, chunks |-> <<>>,
                totalBytes |-> 0, log |-> <<>>, done |-> FALSE, err |-> NoErr], input))

\* one pass of the while loop of Lzma2Decoder.decodeWithSink
Lzma2Decoder_decodeWithSinkStep(L, input) ==
  LET chunk == parseLzma2ChunkHeader(input, L.offset)
      dataOffset == L.offset + chunk.headerSize
      m == Lzma2Decoder_resets(L.m, chunk)
      uncompData == Slice(input, dataOffset, dataOffset + chunk.uncompSize)
      uncompressed(mu) ==
        [L EXCEPT !.m = mu,
                  !.totalBytes = L.totalBytes + Len(uncompData),
                  !.offset = dataOffset + chunk.uncompSize,
                  !.log = Append(L.log, LogEntry(chunk, L.offset, m, mu, L.totalBytes,
                                                 Len(uncompData), 0))]
      toSink(ms) ==
        IF ms.err # NoErr
          THEN [L EXCEPT !.m = ms, !.err = ms.err,
                         !.log = Append(L.log, LogEntry(chunk, L.offset, m, ms, L.totalBytes, 0, 0))]
        ELSE [L EXCEPT !.m = ms,
                       !.totalBytes = L.totalBytes + ms.val,
                       !.offset = dataOffset + chunk.compSize,
                       !.log = Append(L.log, LogEntry(chunk, L.offset, m, ms, L.totalBytes, ms.val,
                                                      ms.rpos - dataOffset))]
  IN  IF chunk.err # NoErr THEN [L EXCEPT !.err = chunk.err]
      ELSE IF ~chunk.success THEN [L EXCEPT !.err = ErrTruncatedHeader]
      ELSE IF chunk.type = "end" THEN [L EXCEPT !.done = TRUE]
      ELSE IF chunk.type = "uncompressed"
        THEN uncompressed(LzmaDecoder_feedUncompressed(m, uncompData))
        ELSE toSink(LzmaDecoder_decodeWithSink(m, input, dataOffset, chunk.uncompSize, useSolid(chunk)))

RECURSIVE Lzma2Decoder_decodeWithSinkLoop(_, _)
Lzma2Decoder_decodeWithSinkLoop(L, input) ==
  IF L.done \/ L.err # NoErr THEN L
  ELSE Lzma2Decoder_decodeWithSinkLoop(Lzma2Decoder_decodeWithSinkStep(L, input), input)

RECURSIVE Flatten(_)
Flatten(ss) == IF ss = <<>> THEN <<>> ELSE Head(ss) \o Flatten(Tail(ss))

\* written is what the sink received, also when the decode then threw
Lzma2Decoder_decodeWithSink(m, input) ==
  LET result(L) ==
        IF L.err # NoErr
          THEN [err |-> L.err, log |-> L.log, matches |-> L.m.matches, junk |-> m.junk,
                out |-> <<>>, ret |-> 0, written |-> Flatten(L.m.written)]
          ELSE [err |-> NoErr, log |-> L.log, matches |-> L.m.matches, junk |-> m.junk,
                out |-> <<>>, ret |-> L.totalBytes,
                written |-> Flatten(LzmaDecoder_flushOutWindow(L.m).written)]
  IN  result(Lzma2Decoder_decodeWithSinkLoop(
               [m |-> m, offset |-> 0, prealloc |-> FALSE, outputPos |-> 0, chunks |-> <<>>,
                totalBytes |-> 0, log |-> <<>>, done |-> FALSE, err |-> NoErr], input))

\* a call that threw before any chunk was read
Thrown(err, junk) ==
  [err |-> err, log |-> <<>>, matches |-> <<>>, junk |-> junk, out |-> <<>>, ret |-> 0,
   written |-> <<>>]

\* decodeLzma2(input, properties, unpackSize, outputSink); properties is a sequence of bytes
decodeLzma2(input, properties, unpackSize, hasSink, junk) ==
  IF ~hasSink /\ unpackSize > MAX_SAFE_SIZE THEN Thrown("Cannot combine buffers", junk)
  ELSE IF Len(properties) < 1 THEN Thrown(ErrRequiresProps, junk)
  ELSE IF properties[1] > 40 THEN Thrown(ErrDictProp, junk)
  ELSE IF hasSink THEN Lzma2Decoder_decodeWithSink(Lzma2Decoder_new(properties[1], TRUE, junk), input)
  ELSE Lzma2Decoder_decode(Lzma2Decoder_new(properties[1], FALSE, junk), input, unpackSize)

(***************************************************************************)
(* createLzma2Decoder (lzma/index.ts).  The Transform and its             *)
(* closure are one record:                                                 *)
(*   decoder    the shared LzmaDecoder,  dictSize  its dictionary size     *)
(*   propsSet, currentLc, currentLp, currentPb   (-1: undefined)           *)
(*   pending, finished                                                     *)
(*   pushed     the Buffers given to this.push, in order                   *)
(*   ended      whether flush has run                                      *)
(*   err        the error given to the callback                            *)
(*   log        one entry per chunk, as for Lzma2Decoder                   *)
(*   matches    the matches of the decoders made for the chunks            *)
(***************************************************************************)
createLzma2Decoder(properties, junk) ==
  LET dictSize == parseLzma2DictionarySize(properties[1])
  IN  [decoder |-> LzmaDecoder_setDictionarySize(NewLzmaDecoder(FALSE, junk), dictSize),
       dictSize |-> dictSize, propsSet |-> FALSE,
       currentLc |-> -1, currentLp |-> -1, currentPb |-> -1,
       pending |-> <<>>, finished |-> FALSE, pushed |-> <<>>, ended |-> FALSE, matches |-> <<>>,
       err |-> IF Len(properties) < 1 THEN ErrRequiresProps
               ELSE IF properties[1] > 40 THEN ErrDictProp ELSE NoErr,
       log |-> <<>>]

\* the decoder made for one LZMA chunk
createLzma2Decoder_streamDecoder(T) ==
  LET sd == LzmaDecoder_setDictionarySize(NewLzmaDecoder(TRUE, T.decoder.junk), T.dictSize)
  IN  IF T.currentLc # -1 /\ T.currentLp # -1 /\ T.currentPb # -1
        THEN LzmaDecoder_setLcLpPb(sd, T.currentLc, T.currentLp, T.currentPb)
        ELSE sd

\* the while loop of transform
RECURSIVE createLzma2Decoder_loop(_, _, _)
createLzma2Decoder_loop(T, input, offset) ==
  IF ~(offset < Len(input) /\ ~T.finished) THEN T
  ELSE
    LET chunkInfo == hasCompleteChunk(input, offset)
        totalSize == chunkInfo.headerSize
                     + (IF chunkInfo.type = "uncompressed" THEN chunkInfo.uncompSize ELSE chunkInfo.compSize)
        dataOffset == offset + chunkInfo.headerSize
        uncompData == Slice(input, dataOffset, dataOffset + chunkInfo.uncompSize)
        d1 == IF chunkInfo.dictReset THEN LzmaDecoder_resetDictionary(T.decoder) ELSE T.decoder
        T1 == IF chunkInfo.newProps
                THEN [T EXCEPT !.currentLc = chunkInfo.lc, !.currentLp = chunkInfo.lp,
                               !.currentPb = chunkInfo.pb]
                ELSE T
        reset(d2) == IF chunkInfo.stateReset THEN LzmaDecoder_resetProbabilities(d2) ELSE d2
        d3 == reset(IF chunkInfo.newProps
                      THEN LzmaDecoder_setLcLpPb(d1, chunkInfo.lc, chunkInfo.lp, chunkInfo.pb) ELSE d1)
        sd0 == createLzma2Decoder_streamDecoder(T1)
        uncompressed(fed) ==
          createLzma2Decoder_loop(
            [T EXCEPT !.pushed = Append(T.pushed, uncompData),
                      !.decoder = fed,
                      !.log = Append(T.log, LogEntry(chunkInfo, offset, d1, fed,
                                                     Len(Flatten(T.pushed)), Len(uncompData), 0))],
            input, offset + totalSize)
        lzma(sd1) ==
          IF sd1.err # NoErr
            THEN [T1 EXCEPT !.decoder = d3, !.propsSet = TRUE, !.err = sd1.err,
                            !.pushed = T.pushed \o sd1.written,
                            !.matches = T.matches \o sd1.matches,
                            !.log = Append(T.log, LogEntry(chunkInfo, offset, sd0, sd1,
                                                           Len(Flatten(T.pushed)), 0, 0))]
            ELSE createLzma2Decoder_loop(
                   [T1 EXCEPT !.decoder = d3, !.propsSet = TRUE,
                              !.pushed = T.pushed \o LzmaDecoder_flushOutWindow(sd1).written,
                              !.matches = T.matches \o sd1.matches,
                              !.log = Append(T.log, LogEntry(chunkInfo, offset, sd0, sd1,
                                                             Len(Flatten(T.pushed)), sd1.val, sd1.rpos))],
                   input, offset + totalSize)
    IN  IF chunkInfo.err # NoErr THEN [T EXCEPT !.err = chunkInfo.err]
        ELSE IF ~chunkInfo.success THEN [T EXCEPT !.pending = Slice(input, offset, Len(input))]
        ELSE IF chunkInfo.type = "end" THEN [T EXCEPT !.finished = TRUE]
        ELSE IF chunkInfo.type = "uncompressed"
          THEN uncompressed(LzmaDecoder_feedUncompressed(d1, uncompData))
        ELSE IF chunkInfo.newProps
                /\ ~LzmaDecoder_setLcLpPb_ok(chunkInfo.lc, chunkInfo.lp, chunkInfo.pb)
          THEN [T1 EXCEPT !.decoder = d1, !.err = ErrInvalidProperties]
        ELSE IF ~chunkInfo.newProps /\ ~T.propsSet
          THEN [T EXCEPT !.decoder = d1, !.err = ErrNoProperties]
        ELSE lzma(LzmaDecoder_decodeWithSink(
                    sd0, Slice(input, dataOffset, dataOffset + chunkInfo.compSize), 0,
                    chunkInfo.uncompSize, useSolid(chunkInfo)))

createLzma2Decoder_transform(T, chunk) ==
  IF T.finished THEN T
  ELSE createLzma2Decoder_loop([T EXCEPT !.pending = <<>>], T.pending \o chunk, 0)

createLzma2Decoder_flush(T) ==
  IF Len(T.pending) > 0 /\ ~T.finished THEN [T EXCEPT !.err = ErrTruncatedStream, !.ended = TRUE]
  ELSE [T EXCEPT !.ended = TRUE]

(***************************************************************************)
(* BCJ x86 filter (filters/bcj/Bcj.ts).  A buffer is modified in place:    *)
(* x86Code returns the record of the buffer, the state and the number of   *)
(* bytes processed.  prevPos is a JavaScript number that starts at         *)
(* 0xfffffffb, kept as a pair of 16-bit halves; stream positions stay      *)
(* below 2^16 here.                                                        *)
(***************************************************************************)
Add32(a, b) ==
  LET lo == a[2] + b[2]
      hi == a[1] + b[1] + (IF lo >= U16 THEN 1 ELSE 0)
  IN  <<hi % U16, lo % U16>>

Test86MSByte(b) == b = 0 \/ b = 255

MASK_TO_BIT_NUMBER == << 0, 1, 2, 2, 3 >>

\* { prevMask: 0, prevPos: 0xfffffffb }
BcjX86State == [prevMask |-> 0, prevPos |-> << 65535, 65531 >>]

\* nowPos - prevPos, exact when prevPos is a stream position and "far below zero" (-1)
\* when prevPos is still 0xfffffffb: the code only compares it with 5 and counts up to it
x86Code_distance(nowPos, prevPos) == IF prevPos[1] > 0 THEN -1 ELSE nowPos - prevPos[2]

\* prevMask &= 0x77; prevMask <<= 1, offset times
RECURSIVE x86Code_shiftMask(_, _)
x86Code_shiftMask(prevMask, offset) ==
  IF offset <= 0 THEN prevMask
  ELSE x86Code_shiftMask(((prevMask % 8) + 16 * ((prevMask \div 16) % 8)) * 2, offset - 1)

\* dest ^ ((1 << (32 - i * 8)) - 1); the shift count is taken modulo 32, so i = 0 gives mask 0
x86Code_flip(dest, i) ==
  IF i = 0 THEN dest
  ELSE IF i = 1 THEN << (dest[1] - (dest[1] % 256)) + (255 - (dest[1] % 256)), 65535 - dest[2] >>
  ELSE IF i = 2 THEN << dest[1], 65535 - dest[2] >>
  ELSE << dest[1], (dest[2] - (dest[2] % 256)) + (255 - (dest[2] % 256)) >>

\* (dest >>> (24 - i * 8)) & 0xff
x86Code_byteOf(dest, i) ==
  IF i = 0 THEN dest[1] \div 256
  ELSE IF i = 1 THEN dest[1] % 256
  ELSE IF i = 2 THEN dest[2] \div 256
  ELSE dest[2] % 256

\* the conversion loop with false positive correction; ip = nowPos + bufferPos + 5
\* a conversion that adds the position in both directions
RECURSIVE x86Code_convertAdd(_, _, _, _)
x86Code_convertAdd(src, ip, prevMask, isEncoder) ==
  LET dest == Add32(src, << 0, ip >>)
      i == MASK_TO_BIT_NUMBER[(prevMask \div 2) + 1]
  IN  IF prevMask = 0 THEN dest
      ELSE IF ~Test86MSByte(x86Code_byteOf(dest, i)) THEN dest
      ELSE x86Code_convertAdd(x86Code_flip(dest, i), ip, prevMask, isEncoder)

RECURSIVE x86Code_convert(_, _, _, _)
x86Code_convert(src, ip, prevMask, isEncoder) ==
  LET dest == IF isEncoder THEN Add32(src, << 0, ip >>) ELSE Sub32(src, << 0, ip >>)
      i == MASK_TO_BIT_NUMBER[(prevMask \div 2) + 1]
  IN  IF prevMask = 0 THEN dest
      ELSE IF ~Test86MSByte(x86Code_byteOf(dest, i)) THEN dest
      ELSE x86Code_convert(x86Code_flip(dest, i), ip, prevMask, isEncoder)

\* the four address bytes written back at bufferPos + 1 .. bufferPos + 4
x86Code_write(buffer, bufferPos, dest) ==
  [j \in 1..Len(buffer) |->
     IF j = bufferPos + 2 THEN dest[2] % 256
     ELSE IF j = bufferPos + 3 THEN dest[2] \div 256
     ELSE IF j = bufferPos + 4 THEN dest[1] % 256
     ELSE IF j = bufferPos + 5 THEN (IF (dest[1] \div 256) % 2 = 1 THEN 255 ELSE 0)
     ELSE buffer[j]]

\* the while (bufferPos <= limit) loop
RECURSIVE x86Code_loop(_, _, _, _, _, _, _)
x86Code_loop(buffer, size, nowPos, isEncoder, bufferPos, prevMask, prevPos) ==
  IF bufferPos > size - 5
    THEN [buffer |-> buffer, prevMask |-> prevMask, prevPos |-> prevPos, processed |-> bufferPos]
  ELSE IF buffer[bufferPos + 1] # 232 /\ buffer[bufferPos + 1] # 233
    THEN x86Code_loop(buffer, size, nowPos, isEncoder, bufferPos + 1, prevMask, prevPos)
  ELSE
    LET offset == x86Code_distance(nowPos + bufferPos, prevPos)
        mask == IF offset > 5 THEN 0 ELSE x86Code_shiftMask(prevMask, offset)
        b == buffer[bufferPos + 5]
        src == << b * 256 + buffer[bufferPos + 4], buffer[bufferPos + 3] * 256 + buffer[bufferPos + 2] >>
        skipped == (IF mask % 2 = 0 THEN mask + 1 ELSE mask)
        marked == IF Test86MSByte(b) /\ (skipped \div 16) % 2 = 0 THEN skipped + 16 ELSE skipped
    IN  IF Test86MSByte(b) /\ mask \div 2 <= 4 /\ mask \div 2 # 3
          THEN x86Code_loop(x86Code_write(buffer, bufferPos,
                                          x86Code_convert(src, nowPos + bufferPos + 5, mask, isEncoder)),
                            size, nowPos, isEncoder, bufferPos + 5, 0, << 0, nowPos + bufferPos >>)
          ELSE x86Code_loop(buffer, size, nowPos, isEncoder, bufferPos + 1, marked,
                            << 0, nowPos + bufferPos >>)

\* x86Code(state, nowPos, isEncoder, buffer, size)
x86Code(state, nowPos, isEncoder, buffer, size) ==
  IF size < 5
    THEN [buffer |-> buffer, prevMask |-> state.prevMask, prevPos |-> state.prevPos, processed |-> 0]
  ELSE x86Code_loop(buffer, size, nowPos, isEncoder, 0, state.prevMask,
                    IF x86Code_distance(nowPos, state.prevPos) > 5 THEN << 0, nowPos - 5 >>
                    ELSE state.prevPos)

decodeBcj(input) == x86Code(BcjX86State, 0, FALSE, input, Len(input)).buffer

(***************************************************************************)
(* XZ container (xz/Decoder.ts)                                            *)
(***************************************************************************)
XZ_MAGIC == << 253, 55, 122, 88, 90, 0 >>
XZ_FOOTER_MAGIC == << 89, 90 >>

FILTER_DELTA == 3
FILTER_BCJ_X86 == 4
FILTER_BCJ_PPC == 5
FILTER_BCJ_IA64 == 6
FILTER_BCJ_ARM64 == 10
FILTER_LZMA2 == 33
BUFFERLIST_THRESHOLD == 65536

ErrMagic == "Invalid XZ magic bytes"
ErrFooterMagic == "Invalid XZ footer magic"
ErrBackwardSize == "Invalid backward size"
ErrIndexIndicator == "Invalid index indicator"
ErrTruncatedMultibyte == "Truncated multibyte integer"
ErrMultibyteTooLarge == "Multibyte integer too large"
ErrBlockHeaderSize == "Invalid block header size (index indicator found instead of block)"
ErrUnsupportedFilter == "Unsupported filter"
ErrNoLzma2Filter == "No LZMA2 filter found in XZ block"

\* buf[o] where o may lie outside the buffer
Undefined == -1
Byte(buf, o) == IF o >= 0 /\ o < Len(buf) THEN buf[o + 1] ELSE Undefined

\* the mutant of bufferEquals: only the first byte is compared
bufferEqualsFirst(buf, offset, expected) ==
  offset + Len(expected) <= Len(buf) /\ Byte(buf, offset) = expected[1]

bufferEquals(buf, offset, expected) ==
  /\ offset + Len(expected) <= Len(buf)
  /\ \A i \in 1..Len(expected) : Byte(buf, offset + i - 1) = expected[i]

\* a decoder that takes the first byte alone
decodeMultibyteFirst(buf, offset) ==
  [err |-> NoErr, value |-> IF offset < Len(buf) THEN buf[offset + 1] % 128 ELSE 0,
   bytesRead |-> 1]

\* the do-while of decodeMultibyte; the bits or-ed into value never overlap
RECURSIVE decodeMultibyte_loop(_, _, _, _)
decodeMultibyte_loop(buf, offset, i, value) ==
  IF offset + i >= Len(buf) THEN [err |-> ErrTruncatedMultibyte, value |-> 0, bytesRead |-> 0]
  ELSE IF i + 1 > 4 THEN [err |-> ErrMultibyteTooLarge, value |-> 0, bytesRead |-> 0]
  ELSE LET next(byte, v) ==
             IF byte >= 128 THEN decodeMultibyte_loop(buf, offset, i + 1, v)
             ELSE [err |-> NoErr, value |-> v, bytesRead |-> i + 1]
           read(byte) == next(byte, value + (byte % 128) * Pow2(i * 7))
       IN  read(At(buf, offset + i))

decodeMultibyte(buf, offset) == decodeMultibyte_loop(buf, offset, 0, 0)

decodeDelta(input, properties) ==
  LET distance == IF Len(properties) >= 1 THEN properties[1] + 1 ELSE 1
      out[j \in 0..Len(input)] ==
        IF j = 0 THEN << >>
        ELSE Append(out[j - 1],
                    ((IF j > distance THEN out[j - 1][j - distance] ELSE 0) + input[j]) % 256)
  IN  out[Len(input)]

\* decodeBcjPpc: the B/BL test and the 26-bit LI field of the big-endian word at pos; the
\* field is rewritten modulo 2^26, so its sign extension does not show
decodeBcjPpc(input) ==
  LET byte(j) ==
        LET pos == j - 1 - ((j - 1) % 4)
            k == (j - 1) % 4
            isBranch == (input[pos + 1] \div 4) = 18 /\ input[pos + 4] % 4 = 1
            addr == (input[pos + 1] % 4) * 16777216 + input[pos + 2] * 65536
                    + input[pos + 3] * 256 + (input[pos + 4] - 1)
            relAddr == (addr - pos) % 67108864
        IN  IF pos + 4 > Len(input) \/ ~isBranch THEN input[j]
            ELSE IF k = 0 THEN 72 + (relAddr \div 16777216)
            ELSE IF k = 1 THEN (relAddr \div 65536) % 256
            ELSE IF k = 2 THEN (relAddr \div 256) % 256
            ELSE (relAddr % 256) + 1
  IN  [j \in 1..Len(input) |-> byte(j)]

(***************************************************************************)
(* IA64 BCJ (filters/bcj/BcjIa64.ts).  instrLo, a 32-bit word once the new *)
(* immediate is written into it, is the pair << high half, low half >>.    *)
(***************************************************************************)
kBranchTable ==
  << 0, 0, 0, 0, 0, 0, 0, 0, 0, 0, 0, 0, 0, 0, 0, 0, 4, 4, 6, 6, 0, 0, 7, 7, 4, 4, 0, 0, 4, 4, 0, 0 >>

\* x >>> n for 0 <= x < 2^31: the shift count is taken modulo 32
Shr(x, n) == IF n % 32 > 30 THEN 0 ELSE x \div Pow2(n % 32)

\* a byte taken at the byte boundary below n
ShrByteAligned(w, n) ==
  IF n >= 16 THEN (w[1] \div Pow2((n - (n % 8)) - 16)) % 256
  ELSE ((w[2] \div Pow2(n - (n % 8))) + (w[1] % 256) * Pow2(16 - (n - (n % 8)))) % 256

\* (w >>> n) & 0xff for the word w = << hi, lo >> and 0 < n < 32
ShrByte(w, n) ==
  IF n >= 16 THEN (w[1] \div Pow2(n - 16)) % 256
  ELSE ((w[2] \div Pow2(n)) + (w[1] % 256) * Pow2(16 - n)) % 256

\* one pass of the slot loop for the bundle at pos: the output after the slot
decodeBcjIa64_slot(output, pos, slot) ==
  LET bitPos == 5 + slot * 41
      bytePos == bitPos \div 8
      bitOffset == bitPos % 8
      instr(k) == output[pos + bytePos + k + 1]
      instrLo == (instr(0) \div Pow2(bitOffset)) + instr(1) * Pow2(8 - bitOffset)
                 + instr(2) * Pow2(16 - bitOffset) + instr(3) * Pow2(24 - bitOffset)
      instrHi == (instr(4) \div Pow2(bitOffset)) + instr(5) * Pow2(8 - bitOffset)
      opcode == Shr(instrHi, 37 - 32 - bitOffset) % 16
      imm20 == (instrLo \div 8192) % 1048576
      sign == (instrHi \div 16) % 2
      addr == IF sign = 1 THEN imm20 - 1048576 ELSE imm20
      relAddr == addr - (pos \div 16)
      newImm20 == relAddr % 1048576
      newSign == (relAddr \div 1048576) % 2
      newLo == << (newImm20 \div 8) % U16, (instrLo % 8192) + (newImm20 % 8) * 8192 >>
      newHi == instrHi - sign * 16 + newSign * 16
      byte(k) ==
        IF k = 0 THEN (instr(0) % Pow2(bitOffset)) + (newLo[2] % Pow2(8 - bitOffset)) * Pow2(bitOffset)
        ELSE IF k = 1 THEN ShrByte(newLo, 8 - bitOffset)
        ELSE IF k = 2 THEN ShrByte(newLo, 16 - bitOffset)
        ELSE IF k = 3 THEN ShrByte(newLo, 24 - bitOffset)
        ELSE IF k = 4 THEN (ShrByte(newLo, 32 - bitOffset) % Pow2(bitOffset))
                           + (newHi % Pow2(8 - bitOffset)) * Pow2(bitOffset)
        ELSE (instr(5) - (instr(5) % Pow2(bitOffset)))
             + ((newHi \div Pow2(8 - bitOffset)) % Pow2(bitOffset))
  IN  IF (kBranchTable[(output[pos + 1] % 32) + 1] \div Pow2(slot)) % 2 = 0 THEN output
      ELSE IF opcode # 4 /\ opcode # 5 THEN output
      ELSE [j \in 1..Len(output) |->
              IF j > pos + bytePos /\ j <= pos + bytePos + 6 THEN byte(j - pos - bytePos - 1)
              ELSE output[j]]

\* the while loop over the 16-byte bundles; a complete bundle holds the 6 bytes of each slot,
\* so the break of the slot loop is never taken
RECURSIVE decodeBcjIa64_loop(_, _)
decodeBcjIa64_loop(output, pos) ==
  IF pos + 16 > Len(output) THEN output
  ELSE decodeBcjIa64_loop(
         decodeBcjIa64_slot(decodeBcjIa64_slot(decodeBcjIa64_slot(output, pos, 0), pos, 1), pos, 2),
         pos + 16)

decodeBcjIa64(input) == decodeBcjIa64_loop(input, 0)

\* the result of the filters this model leaves out
ErrNotModelled == "filter not modelled"

\* the switch over filter.id.  The ARM, ARM Thumb, SPARC and ARM64 decoders are left out of
\* this model, and no input of the model declares them.
applyFilter(data, filter) ==
  IF filter.id = FILTER_BCJ_X86 THEN [err |-> NoErr, data |-> decodeBcj(data)]
  ELSE IF filter.id = FILTER_BCJ_PPC THEN [err |-> NoErr, data |-> decodeBcjPpc(data)]
  ELSE IF filter.id = FILTER_BCJ_IA64 THEN [err |-> NoErr, data |-> decodeBcjIa64(data)]
  ELSE IF filter.id = FILTER_DELTA THEN [err |-> NoErr, data |-> decodeDelta(data, filter.props)]
  ELSE IF filter.id \in FILTER_BCJ_X86..FILTER_BCJ_ARM64 THEN [err |-> ErrNotModelled, data |-> << >>]
  ELSE [err |-> ErrUnsupportedFilter, data |-> << >>]

\* a filter loop that runs from the first declared filter to the last
RECURSIVE applyFiltersForward(_, _, _)
applyFiltersForward(data, filters, j) ==
  IF j < 1 THEN [err |-> NoErr, data |-> data]
  ELSE LET next(r) == IF r.err # NoErr THEN r ELSE applyFiltersForward(r.data, filters, j - 1)
       IN  next(applyFilter(data, filters[Len(filters) - j + 1]))

\* the loop "for (j = filters.length - 1; j >= 0; j--) blockOutput = applyFilter(...)"
RECURSIVE applyFilters(_, _, _)
applyFilters(data, filters, j) ==
  IF j < 1 THEN [err |-> NoErr, data |-> data]
  ELSE LET next(r) == IF r.err # NoErr THEN r ELSE applyFilters(r.data, filters, j - 1)
       IN  next(applyFilter(data, filters[j]))

\* the filter loop of parseBlockHeader
RECURSIVE parseBlockHeader_filters(_, _, _, _, _, _)
parseBlockHeader_filters(input, offset, n, filters, found, lzma2Props) ==
  IF n = 0 THEN [err |-> IF found THEN NoErr ELSE ErrNoLzma2Filter, filters |-> filters,
                 lzma2Props |-> lzma2Props]
  ELSE LET failed(e) == [err |-> e, filters |-> << >>, lzma2Props |-> << >>]
           filter(id, start, size, filterProps) ==
             IF id = FILTER_LZMA2 THEN [err |-> NoErr, filters |-> filters, found |-> TRUE,
                                         lzma2Props |-> filterProps]
             ELSE IF id = FILTER_DELTA \/ (id >= FILTER_BCJ_X86 /\ id <= FILTER_BCJ_ARM64)
               THEN [err |-> NoErr, filters |-> Append(filters, [id |-> id, props |-> filterProps]),
                     found |-> found, lzma2Props |-> lzma2Props]
             ELSE [err |-> ErrUnsupportedFilter, filters |-> << >>, found |-> found,
                   lzma2Props |-> << >>]
           next(f, offset1) ==
             IF f.err # NoErr THEN failed(f.err)
             ELSE parseBlockHeader_filters(input, offset1, n - 1, f.filters, f.found, f.lzma2Props)
           props(id, start, size) ==
             next(filter(id.value, start, size.value, Slice(input, start, start + size.value)),
                  start + size.value)
           sized(id, size) ==
             IF size.err # NoErr THEN failed(size.err)
             ELSE props(id, offset + id.bytesRead + size.bytesRead, size)
           identified(id) ==
             IF id.err # NoErr THEN failed(id.err)
             ELSE sized(id, decodeMultibyte(input, offset + id.bytesRead))
       IN  identified(decodeMultibyte(input, offset))

\* headerSize is only used when the size byte was read: without it the filter loop has thrown
parseBlockHeader(input, offset) ==
  LET blockHeaderSizeRaw == Byte(input, offset)
      failed(e) == [err |-> e, filters |-> << >>, lzma2Props |-> << >>, headerSize |-> 0]
      none == [err |-> NoErr, value |-> 0, bytesRead |-> 0]
      filtered(f) ==
        IF f.err # NoErr THEN failed(f.err)
        ELSE [err |-> NoErr, filters |-> f.filters, lzma2Props |-> f.lzma2Props,
              headerSize |-> (blockHeaderSizeRaw + 1) * 4]
      uncompressedSize(numFilters, c, u) ==
        IF u.err # NoErr THEN failed(u.err)
        ELSE filtered(parseBlockHeader_filters(input, offset + 2 + c.bytesRead + u.bytesRead,
                                               numFilters, << >>, FALSE, << >>))
      compressedSize(blockFlags, c) ==
        IF c.err # NoErr THEN failed(c.err)
        ELSE uncompressedSize(IF blockFlags = Undefined THEN 1 ELSE (blockFlags % 4) + 1, c,
                              IF blockFlags # Undefined /\ blockFlags >= 128
                                THEN decodeMultibyte(input, offset + 2 + c.bytesRead) ELSE none)
      flags(blockFlags) ==
        compressedSize(blockFlags,
                       IF blockFlags # Undefined /\ (blockFlags \div 64) % 2 = 1
                         THEN decodeMultibyte(input, offset + 2) ELSE none)
  IN  IF blockHeaderSizeRaw = 0 THEN failed(ErrBlockHeaderSize)
      ELSE flags(Byte(input, offset + 1))

\* the record loop of parseIndex
RECURSIVE parseIndex_records(_, _, _, _)
parseIndex_records(input, offset, n, records) ==
  IF n = 0 THEN [err |-> NoErr, records |-> records]
  ELSE LET sizes(unpadded, uncompressed) ==
             IF uncompressed.err # NoErr THEN [err |-> uncompressed.err, records |-> << >>]
             ELSE parseIndex_records(input, offset + unpadded.bytesRead + uncompressed.bytesRead, n - 1,
                                     Append(records, [unpaddedSize |-> unpadded.value,
                                                      uncompressedSize |-> uncompressed.value]))
           first(unpadded) ==
             IF unpadded.err # NoErr THEN [err |-> unpadded.err, records |-> << >>]
             ELSE sizes(unpadded, decodeMultibyte(input, offset + unpadded.bytesRead))
       IN  first(decodeMultibyte(input, offset))

\* a walk that advances by the unpadded size itself, without the padding to four bytes
RECURSIVE parseIndex_positionsUnpadded(_, _, _, _, _)
parseIndex_positionsUnpadded(input, checkSize, records, i, currentPos) ==
  IF i > Len(records) THEN << >>
  ELSE << [compressedPos |-> currentPos,
           compressedDataSize |-> IF Byte(input, currentPos) = Undefined THEN Undefined
                                  ELSE records[i].unpaddedSize - (Byte(input, currentPos) + 1) * 4
                                       - checkSize,
           uncompressedSize |-> records[i].uncompressedSize] >>
       \o parseIndex_positionsUnpadded(input, checkSize, records, i + 1,
                                       currentPos + records[i].unpaddedSize)

\* the walk through the blocks; a header size byte outside the input leaves headerSize and
\* compressedDataSize NaN (Undefined)
RECURSIVE parseIndex_positions(_, _, _, _, _)
parseIndex_positions(input, checkSize, records, i, currentPos) ==
  IF i > Len(records) THEN << >>
  ELSE LET position(headerSizeRaw) ==
             << [compressedPos |-> currentPos,
                 compressedDataSize |-> IF headerSizeRaw = Undefined THEN Undefined
                                        ELSE records[i].unpaddedSize - (headerSizeRaw + 1) * 4 - checkSize,
                 uncompressedSize |-> records[i].uncompressedSize] >>
       IN  position(Byte(input, currentPos))
           \o parseIndex_positions(input, checkSize, records, i + 1,
                                   currentPos + ((records[i].unpaddedSize + 3) \div 4) * 4)

parseIndex(input, indexStart, checkSize) ==
  LET positions(r) ==
        IF r.err # NoErr THEN r
        ELSE [err |-> NoErr, records |-> parseIndex_positions(input, checkSize, r.records, 1, 12)]
      counted(count) ==
        IF count.err # NoErr THEN [err |-> count.err, records |-> << >>]
        ELSE positions(parseIndex_records(input, indexStart + 1 + count.bytesRead, count.value, << >>))
  IN  IF Byte(input, indexStart) # 0 THEN [err |-> ErrIndexIndicator, records |-> << >>]
      ELSE counted(decodeMultibyte(input, indexStart + 1))

checkSizeOf(checkType) ==
  IF checkType = 1 THEN 4 ELSE IF checkType = 4 THEN 8 ELSE IF checkType = 10 THEN 32 ELSE 0

\* a decoder that takes the end of the input for the end of the footer
skipPaddingNone(input, footerEnd) == footerEnd

\* the two while loops that find the end of the footer
RECURSIVE skipPadding(_, _)
skipPadding(input, footerEnd) ==
  IF footerEnd > 12 /\ Byte(input, footerEnd - 1) = 0 THEN skipPadding(input, footerEnd - 1)
  ELSE footerEnd

RECURSIVE alignFooter(_)
alignFooter(footerEnd) ==
  IF footerEnd % 4 # 0 /\ footerEnd > 12 THEN alignFooter(footerEnd + 1) ELSE footerEnd

\* readUInt32LE; the inputs of the model keep the value below 2^29
readUInt32LE(buf, offset) ==
  IF offset < 0 \/ offset + 4 > Len(buf) THEN Undefined
  ELSE At(buf, offset) + 256 * At(buf, offset + 1) + 65536 * At(buf, offset + 2)
       + 16777216 * At(buf, offset + 3)

\* the part decodeXZPure and the flush of createXZDecoder share: magic, footer, index
parseStream(input) ==
  LET failed(e) == [err |-> e, checkSize |-> 0, blockRecords |-> << >>]
      indexed(checkSize, idx) ==
        IF idx.err # NoErr THEN failed(idx.err)
        ELSE [err |-> NoErr, checkSize |-> checkSize, blockRecords |-> idx.records]
      backward(footerEnd, backwardSizeLE, checkSize) ==
        IF backwardSizeLE = Undefined THEN failed(ErrBackwardSize)
        ELSE indexed(checkSize,
                     parseIndex(input, footerEnd - 12 - (backwardSizeLE + 1) * 4, checkSize))
      footer(footerEnd) ==
        IF ~bufferEquals(input, footerEnd - 2, XZ_FOOTER_MAGIC) THEN failed(ErrFooterMagic)
        ELSE backward(footerEnd, readUInt32LE(input, footerEnd - 8), checkSizeOf(Byte(input, 7) % 16))
  IN  IF Len(input) < 12 \/ ~bufferEquals(input, 0, XZ_MAGIC) THEN failed(ErrMagic)
      ELSE footer(alignFooter(skipPadding(input, Len(input))))

\* one block of decodeXZPure: header, LZMA2 data, filters
decodeXZPure_block(input, record, junk) ==
  LET blockInfo == parseBlockHeader(input, record.compressedPos)
      dataStart == record.compressedPos + blockInfo.headerSize
      filtered(lz) ==
        IF lz.err # NoErr THEN [err |-> lz.err, data |-> << >>]
        ELSE applyFilters(lz.out, blockInfo.filters, Len(blockInfo.filters))
  IN  IF blockInfo.err # NoErr THEN [err |-> blockInfo.err, data |-> << >>]
      ELSE filtered(decodeLzma2(Slice(input, dataStart, dataStart + record.compressedDataSize),
                                blockInfo.lzma2Props, record.uncompressedSize, FALSE, junk))

RECURSIVE SumUncompressed(_)
SumUncompressed(records) ==
  IF records = << >> THEN 0 ELSE Head(records).uncompressedSize + SumUncompressed(Tail(records))

\* the BufferList loop over all blocks
RECURSIVE decodeXZPure_blocks(_, _, _, _, _)
decodeXZPure_blocks(input, records, i, output, junk) ==
  IF i > Len(records) THEN [err |-> NoErr, out |-> output]
  ELSE LET next(b) ==
             IF b.err # NoErr THEN [err |-> b.err, out |-> << >>]
             ELSE decodeXZPure_blocks(input, records, i + 1, output \o b.data, junk)
       IN  next(decodeXZPure_block(input, records[i], junk))

decodeXZPure(input, junk) ==
  LET st == parseStream(input)
      single(first) == [err |-> first.err, out |-> first.data]
  IN  IF st.err # NoErr THEN [err |-> st.err, out |-> << >>]
      ELSE IF Len(st.blockRecords) = 0 THEN [err |-> NoErr, out |-> << >>]
      ELSE IF Len(st.blockRecords) = 1 \/ SumUncompressed(st.blockRecords) < BUFFERLIST_THRESHOLD
        THEN single(decodeXZPure_block(input, st.blockRecords[1], junk))
      ELSE decodeXZPure_blocks(input, st.blockRecords, 1, << >>, junk)

(***************************************************************************)
(* createXZDecoder: the Transform is the record                            *)
(*   bufferList  the bytes appended by transform                           *)
(*   pushed      the Buffers given to this.push, ended  whether flush ran  *)
(*   err         the error flush ended with                                *)
(*   thrown      whether the error left flush as an exception (TRUE) or    *)
(*               was passed to the callback of flush (FALSE)               *)
(***************************************************************************)
createXZDecoder ==
  [bufferList |-> << >>, pushed |-> << >>, ended |-> FALSE, err |-> NoErr, thrown |-> FALSE]

createXZDecoder_transform(X, chunk) == [X EXCEPT !.bufferList = X.bufferList \o chunk]

\* pushBlock: the header is parsed from the slice that the size byte delimits.  An error of
\* decodeLzma2 or applyFilter is raised inside the try of decodeLzma2Block, whose catch gives
\* it to cb and so to callback.  parseBlockHeader runs outside that try: its exception leaves
\* flush for the first block, and for a later block it unwinds into the catch of the block
\* before, which gives it to callback.
RECURSIVE createXZDecoder_pushBlock(_, _, _, _, _)
createXZDecoder_pushBlock(X, input, records, blockIndex, junk) ==
  IF blockIndex > Len(records) THEN [X EXCEPT !.bufferList = << >>, !.ended = TRUE]
  ELSE
    LET record == records[blockIndex]
        recordStart == record.compressedPos
        headerSizeRaw == Byte(input, recordStart)
        headerSize == (headerSizeRaw + 1) * 4
        blockInfo == parseBlockHeader(IF headerSizeRaw = Undefined THEN << >>
                                      ELSE Slice(input, recordStart, recordStart + headerSize), 0)
        dataStart == recordStart + headerSize
        push(fl) ==
          IF fl.err # NoErr THEN [X EXCEPT !.err = fl.err, !.ended = TRUE]
          ELSE createXZDecoder_pushBlock([X EXCEPT !.pushed = Append(X.pushed, fl.data)],
                                         input, records, blockIndex + 1, junk)
        filtered(lz) ==
          IF lz.err # NoErr THEN [X EXCEPT !.err = lz.err, !.ended = TRUE]
          ELSE push(applyFilters(lz.out, blockInfo.filters, Len(blockInfo.filters)))
    IN  IF blockInfo.err # NoErr
          THEN [X EXCEPT !.err = blockInfo.err, !.thrown = (blockIndex = 1), !.ended = TRUE]
        ELSE filtered(decodeLzma2(Slice(input, dataStart, dataStart + record.compressedDataSize),
                                  blockInfo.lzma2Props, record.uncompressedSize, FALSE, junk))

\* flush: the magic, footer and backward size errors are given to callback; parseIndex is
\* called outside any try, so its errors leave flush as exceptions
createXZDecoder_flush(X, junk) ==
  LET st == parseStream(X.bufferList)
  IN  IF st.err # NoErr
        THEN [X EXCEPT !.err = st.err,
                       !.thrown = (st.err \notin { ErrMagic, ErrFooterMagic, ErrBackwardSize }),
                       !.ended = TRUE]
      ELSE createXZDecoder_pushBlock(X, X.bufferList, st.blockRecords, 1, junk)

(***************************************************************************)
(* Streaming filter decoders.  A Transform is a record of the variables    *)
(* its closure holds, together with                                        *)
(*   pushed   the Buffers it has emitted so far (callback(null, data) and  *)
(*            this.push(data))                                             *)
(*   ended    whether flush has run                                        *)
(***************************************************************************)
\* createDeltaDecoder(properties): state holds distance zeros
createDeltaDecoder(properties) ==
  LET distance == IF Len(properties) >= 1 THEN properties[1] + 1 ELSE 1
  IN  [distance |-> distance, state |-> [i \in 1..distance |-> 0], byteIndex |-> 0,
       pushed |-> << >>, ended |-> FALSE]

\* the for loop of the transform of createDeltaDecoder, from chunk[j]
RECURSIVE createDeltaDecoder_loop(_, _, _, _)
createDeltaDecoder_loop(T, chunk, j, output) ==
  IF j >= Len(chunk) THEN [T EXCEPT !.pushed = Append(T.pushed, output)]
  ELSE LET idx == T.byteIndex % T.distance
           sum == (T.state[idx + 1] + chunk[j + 1]) % 256
       IN  createDeltaDecoder_loop([T EXCEPT !.state[idx + 1] = sum, !.byteIndex = T.byteIndex + 1],
                                   chunk, j + 1, Append(output, sum))

\* a transform whose byte index starts again at 0 in every chunk
createDeltaDecoder_transformRestart(T, chunk) ==
  createDeltaDecoder_loop([T EXCEPT !.byteIndex = 0], chunk, 0, << >>)

createDeltaDecoder_transform(T, chunk) == createDeltaDecoder_loop(T, chunk, 0, << >>)

\* the Transform has no flush: end() only ends the stream
createDeltaDecoder_flush(T) == [T EXCEPT !.ended = TRUE]

\* createBcjDecoder(): pending = null is the empty sequence
createBcjDecoder ==
  [state |-> BcjX86State, globalPos |-> 0, pending |-> << >>, pushed |-> << >>, ended |-> FALSE]

\* a transform that converts every chunk from the initial prevMask and prevPos
createBcjDecoder_transformNoState(T, chunk) ==
  LET data == T.pending \o chunk
      r == x86Code(BcjX86State, T.globalPos, FALSE, data, Len(data))
  IN  IF Len(data) < 5 \/ r.processed = 0
        THEN [T EXCEPT !.pending = data, !.pushed = Append(T.pushed, << >>)]
      ELSE [T EXCEPT !.state = [prevMask |-> r.prevMask, prevPos |-> r.prevPos],
                     !.pushed = Append(T.pushed, SubSeq(r.buffer, 1, r.processed)),
                     !.pending = SubSeq(r.buffer, r.processed + 1, Len(data)),
                     !.globalPos = T.globalPos + r.processed]

createBcjDecoder_transform(T, chunk) ==
  LET data == T.pending \o chunk
      r == x86Code(T.state, T.globalPos, FALSE, data, Len(data))
  IN  IF Len(data) < 5 \/ r.processed = 0
        THEN [T EXCEPT !.pending = data, !.pushed = Append(T.pushed, << >>)]
      ELSE [T EXCEPT !.state = [prevMask |-> r.prevMask, prevPos |-> r.prevPos],
                     !.pushed = Append(T.pushed, SubSeq(r.buffer, 1, r.processed)),
                     !.pending = SubSeq(r.buffer, r.processed + 1, Len(data)),
                     !.globalPos = T.globalPos + r.processed]

createBcjDecoder_flush(T) ==
  [T EXCEPT !.pushed = IF Len(T.pending) > 0 THEN Append(T.pushed, T.pending) ELSE T.pushed,
            !.ended = TRUE]

\* createBufferingDecoder(decodeFn): chunks is kept as Buffer.concat(chunks), which is all
\* that flush reads of it
createBufferingDecoder ==
  [chunks |-> << >>, totalSize |-> 0, pushed |-> << >>, ended |-> FALSE]

createBufferingDecoder_transform(T, chunk) ==
  [T EXCEPT !.chunks = T.chunks \o chunk, !.totalSize = T.totalSize + Len(chunk)]

\* flush, with output = decodeFn(input); none of the decoders of this model throws
createBufferingDecoder_flush(T, output) ==
  [T EXCEPT !.pushed = Append(T.pushed, output), !.ended = TRUE]

(***************************************************************************)
(* LZMA2 input streams.  A scenario is a sequence of chunks made by an     *)
(* LZMA encoder (lc = 3, lp = 0, pb = 2, dictionary property 0); an input  *)
(* is the first k chunks of a scenario, with or without the end byte.      *)
(***************************************************************************)
\* an LZMA chunk with every reset, a solid chunk, a chunk with state reset, a chunk with new
\* properties; the later chunks hold matches into the earlier ones
ScenSolid ==
  << <<224, 0, 3, 0, 7, 93, 0, 48, 152, 156, 4, 0, 0, 0>>,
     <<128, 0, 3, 0, 6, 0, 132, 68, 53, 0, 0, 0>>,
     <<160, 0, 2, 0, 6, 0, 50, 192, 32, 0, 0, 0>>,
     <<192, 0, 2, 0, 6, 93, 0, 208, 50, 252, 0, 0, 0>> >>

\* uncompressed chunks and LZMA chunks whose matches reach into them
ScenMixed ==
  << <<1, 0, 2, 97, 98, 99>>,
     <<192, 0, 2, 0, 6, 93, 0, 128, 3, 28, 0, 0, 0>>,
     <<2, 0, 1, 101, 102>>,
     <<128, 0, 2, 0, 5, 0, 128, 70, 27, 146, 32>> >>

\* chunks after the first that reset the dictionary
ScenResets ==
  << <<1, 0, 1, 97, 98>>,
     <<1, 0, 1, 99, 100>>,
     <<224, 0, 2, 0, 6, 93, 0, 50, 225, 148, 0, 0, 0>>,
     <<224, 0, 2, 0, 6, 93, 0, 51, 191, 252, 0, 0, 0>> >>

\* a match that runs past the declared uncompressed size
ScenOverrun ==
  << <<224, 0, 2, 0, 6, 93, 0, 48, 197, 252, 0, 0, 0>>,
     <<128, 0, 0, 0, 5, 0, 48, 255, 252, 0, 0>> >>

\* an end marker inside an LZMA chunk, then a short rep
ScenEndMarker ==
  << <<224, 0, 2, 0, 7, 93, 0, 48, 152, 136, 144, 119, 78, 160>>,
     <<224, 0, 1, 0, 10, 93, 0, 60, 65, 251, 255, 255, 255, 224, 0, 0, 0>>,
     <<128, 0, 0, 0, 4, 0, 191, 255, 252, 0>> >>

\* a declared compressed size one byte larger than the range coder needs
ScenPadded ==
  << <<224, 0, 1, 0, 7, 93, 0, 48, 152, 124, 0, 0, 0, 0>>,
     <<128, 0, 1, 0, 5, 0, 128, 15, 252, 0, 0>> >>

\* a match whose distance reaches before the start of the dictionary
ScenBadDistance ==
  << <<224, 0, 1, 0, 6, 93, 0, 48, 152, 124, 0, 0, 0>>,
     <<128, 0, 2, 0, 6, 0, 50, 142, 223, 38, 64, 0>> >>

\* control byte 0x03
ScenBadControl ==
  << <<1, 0, 0, 97>>,
     <<3, 0, 0, 65>> >>

\* a first chunk with the reserved control byte 0x7F
ScenReservedFirst ==
  << <<127, 0, 0, 65>> >>

\* the first and the last chunk of ScenSolid, the last with the properties byte 225
\* (lc = 0, lp = 0, pb = 5)
ScenBadProps ==
  << <<224, 0, 3, 0, 7, 93, 0, 48, 152, 156, 4, 0, 0, 0>>,
     <<192, 0, 2, 0, 6, 225, 0, 208, 50, 252, 0, 0, 0>> >>

\* the first chunk of ScenSolid without the last three bytes of its payload, which are 0,
\* and with the compressed size 5 in its header
ScenShortPayload ==
  << <<224, 0, 3, 0, 4, 93, 0, 48, 152, 156, 4>> >>

\* a first LZMA chunk without properties
ScenNoProps ==
  << <<1, 0, 2, 97, 98, 99>>,
     <<128, 0, 1, 0, 6, 0, 50, 26, 118, 116, 56, 128>> >>

\* one chunk with matches at four distances, a rep match with each of rep1, rep2, rep3 and
\* rep0, a short rep and two literals
ScenReps ==
  << <<224, 0, 22, 0, 21, 93, 0, 48, 152, 136, 152, 70, 32, 163, 105, 0, 152, 108, 161, 84, 195, 5, 182, 243, 54, 252, 211, 0>> >>

\* a chunk that ends with a match, an uncompressed chunk with dictionary reset, and an LZMA
\* chunk without state reset whose range coder yields a literal
ScenStale ==
  << <<224, 0, 3, 0, 7, 93, 0, 48, 152, 156, 4, 0, 0, 0>>,
     <<1, 0, 0, 99>>,
     <<128, 0, 0, 0, 4, 0, 0, 0, 0, 0>> >>

Scenarios ==
  << ScenSolid, ScenMixed, ScenResets, ScenOverrun, ScenEndMarker, ScenPadded, ScenBadDistance, ScenBadControl, ScenNoProps,
     ScenReservedFirst, ScenBadProps, ScenShortPayload >>

\* how many leading chunks of each scenario, with the end byte, form a stream that the
\* reference decoder (liblzma) accepts
WellFormedPrefix == << 4, 4, 4, 0, 1, 0, 1, 1, 1, 0, 1, 0 >>

MaxChunks == 3
MaxWrite == 2
JunkValues == {0, 255}
Properties == << 0 >>

Min(a, b) == IF a <= b THEN a ELSE b

Lzma2Input(s, k, terminated) ==
  Flatten(SubSeq(Scenarios[s], 1, k)) \o (IF terminated THEN << 0 >> ELSE << >>)

Lzma2Inputs ==
  { Lzma2Input(x[1], x[2], x[3]) :
      x \in { y \in (DOMAIN Scenarios) \X (1..MaxChunks) \X BOOLEAN : y[2] <= Len(Scenarios[y[1]]) } }

IsWellFormed(in) ==
  \E s \in DOMAIN Scenarios : \E k \in 1..WellFormedPrefix[s] : in = Lzma2Input(s, k, TRUE)

\* the sum of the uncompressed sizes the chunk headers declare: the unpackSize a caller
\* that knows the stream passes
RECURSIVE DeclaredSize(_, _)
DeclaredSize(in, offset) ==
  LET sum(chunk) ==
        IF chunk.err # NoErr \/ ~chunk.success \/ chunk.type = "end" THEN 0
        ELSE chunk.uncompSize
             + DeclaredSize(in, offset + chunk.headerSize
                                + (IF chunk.type = "uncompressed" THEN chunk.uncompSize
                                   ELSE chunk.compSize))
  IN  sum(parseLzma2ChunkHeader(in, offset))

(***************************************************************************)
(* XZ inputs: streams with CRC32 checks whose blocks hold LZMA2 streams    *)
(* of the scenarios above.                                                 *)
(*   XzOne, XzTwo, XzThree, XzEmpty   1, 2, 3 and 0 blocks                 *)
(*   XzPadded                         one stream and stream padding        *)
(*   XzTwoLarge                       two blocks; the index declares 40000 *)
(*                                    bytes for each                       *)
(*   XzShort, XzLong, XzShortTwo      the index declares fewer / more      *)
(*                                    bytes than the block holds           *)
(***************************************************************************)
XzOne ==
  <<253, 55, 122, 88, 90, 0, 0, 1, 105, 34, 222, 54, 2, 0, 33, 1, 0, 0, 0, 0, 55, 39, 151, 214, 224, 0, 3, 0, 7, 93, 0, 48, 152, 156, 4, 0, 0, 0, 128, 0, 3, 0, 6, 0, 132, 68, 53, 0, 0, 0, 0, 0, 169, 232, 62, 128, 0, 1, 43, 8, 112, 192, 45, 88, 144, 66, 153, 13, 1, 0, 0, 0, 0, 1, 89, 90>>

XzTwo ==
  <<253, 55, 122, 88, 90, 0, 0, 1, 105, 34, 222, 54, 2, 0, 33, 1, 0, 0, 0, 0, 55, 39, 151, 214, 224, 0, 3, 0, 7, 93, 0, 48, 152, 156, 4, 0, 0, 0, 128, 0, 3, 0, 6, 0, 132, 68, 53, 0, 0, 0, 0, 0, 169, 232, 62, 128, 2, 0, 33, 1, 0, 0, 0, 0, 55, 39, 151, 214, 1, 0, 2, 97, 98, 99, 192, 0, 2, 0, 6, 93, 0, 128, 3, 28, 0, 0, 0, 0, 192, 233, 149, 246, 0, 2, 43, 8, 36, 6, 0, 0, 175, 52, 123, 132, 62, 48, 13, 139, 2, 0, 0, 0, 0, 1, 89, 90>>

XzThree ==
  <<253, 55, 122, 88, 90, 0, 0, 1, 105, 34, 222, 54, 2, 0, 33, 1, 0, 0, 0, 0, 55, 39, 151, 214, 1, 0, 1, 97, 98, 0, 0, 0, 109, 72, 131, 158, 2, 0, 33, 1, 0, 0, 0, 0, 55, 39, 151, 214, 1, 0, 2, 97, 98, 99, 192, 0, 2, 0, 6, 93, 0, 128, 3, 28, 0, 0, 0, 0, 192, 233, 149, 246, 2, 0, 33, 1, 0, 0, 0, 0, 55, 39, 151, 214, 224, 0, 3, 0, 7, 93, 0, 48, 152, 156, 4, 0, 0, 0, 128, 0, 3, 0, 6, 0, 132, 68, 53, 0, 0, 0, 0, 0, 169, 232, 62, 128, 0, 3, 22, 2, 36, 6, 43, 8, 146, 70, 243, 168, 62, 48, 13, 139, 2, 0, 0, 0, 0, 1, 89, 90>>

XzEmpty ==
  <<253, 55, 122, 88, 90, 0, 0, 1, 105, 34, 222, 54, 0, 0, 0, 0, 28, 223, 68, 33, 144, 66, 153, 13, 1, 0, 0, 0, 0, 1, 89, 90>>

XzPadded ==
  <<253, 55, 122, 88, 90, 0, 0, 1, 105, 34, 222, 54, 2, 0, 33, 1, 0, 0, 0, 0, 55, 39, 151, 214, 1, 0, 1, 97, 98, 0, 0, 0, 109, 72, 131, 158, 0, 1, 22, 2, 208, 97, 16, 210, 144, 66, 153, 13, 1, 0, 0, 0, 0, 1, 89, 90, 0, 0, 0, 0>>

XzTwoLarge ==
  <<253, 55, 122, 88, 90, 0, 0, 1, 105, 34, 222, 54, 2, 0, 33, 1, 0, 0, 0, 0, 55, 39, 151, 214, 1, 0, 1, 97, 98, 0, 0, 0, 109, 72, 131, 158, 2, 0, 33, 1, 0, 0, 0, 0, 55, 39, 151, 214, 1, 0, 2, 97, 98, 99, 192, 0, 2, 0, 6, 93, 0, 128, 3, 28, 0, 0, 0, 0, 192, 233, 149, 246, 0, 2, 22, 192, 184, 2, 36, 192, 184, 2, 0, 0, 146, 76, 40, 141, 155, 227, 81, 64, 3, 0, 0, 0, 0, 1, 89, 90>>

XzShort ==
  <<253, 55, 122, 88, 90, 0, 0, 1, 105, 34, 222, 54, 2, 0, 33, 1, 0, 0, 0, 0, 55, 39, 151, 214, 224, 0, 3, 0, 7, 93, 0, 48, 152, 156, 4, 0, 0, 0, 128, 0, 3, 0, 6, 0, 132, 68, 53, 0, 0, 0, 0, 0, 169, 232, 62, 128, 0, 1, 43, 5, 205, 188, 156, 38, 144, 66, 153, 13, 1, 0, 0, 0, 0, 1, 89, 90>>

XzLong ==
  <<253, 55, 122, 88, 90, 0, 0, 1, 105, 34, 222, 54, 2, 0, 33, 1, 0, 0, 0, 0, 55, 39, 151, 214, 224, 0, 3, 0, 7, 93, 0, 48, 152, 156, 4, 0, 0, 0, 128, 0, 3, 0, 6, 0, 132, 68, 53, 0, 0, 0, 0, 0, 169, 232, 62, 128, 0, 1, 43, 12, 105, 4, 64, 95, 144, 66, 153, 13, 1, 0, 0, 0, 0, 1, 89, 90>>

XzShortTwo ==
  <<253, 55, 122, 88, 90, 0, 0, 1, 105, 34, 222, 54, 2, 0, 33, 1, 0, 0, 0, 0, 55, 39, 151, 214, 1, 0, 1, 97, 98, 0, 0, 0, 109, 72, 131, 158, 2, 0, 33, 1, 0, 0, 0, 0, 55, 39, 151, 214, 1, 0, 2, 97, 98, 99, 192, 0, 2, 0, 6, 93, 0, 128, 3, 28, 0, 0, 0, 0, 192, 233, 149, 246, 0, 2, 22, 2, 36, 4, 0, 0, 19, 236, 171, 117, 62, 48, 13, 139, 2, 0, 0, 0, 0, 1, 89, 90>>

(***************************************************************************)
(* XZ inputs with filter chains and with malformed container fields.  The  *)
(* blocks hold one uncompressed LZMA2 chunk.                               *)
(*   XzDeltaX86, XzX86Delta   one block declaring Delta (distance 1), x86, *)
(*                            LZMA2 and x86, Delta, LZMA2                  *)
(*   XzFilteredLarge          both chains (the second with distance 2) in  *)
(*                            two blocks; the index declares 40000 bytes   *)
(*                            for each                                     *)
(*   XzBadMagic, XzTiny       a wrong header magic; 11 bytes               *)
(*   XzBadFooter,             a wrong footer magic, without and with       *)
(*   XzBadFooterPadded        stream padding after it                      *)
(*   XzBadIndex               a wrong index indicator                      *)
(*   XzFilter7F, XzFilter02,  one block declaring the filter 0x7f, 0x02,   *)
(*   XzFilter0B               0x0b before LZMA2                            *)
(*   XzFilter7FSecond,        two blocks, the second declaring 0x7f; the   *)
(*   XzFilter7FSecondLarge    index declares 2 or 40000 bytes for each     *)
(***************************************************************************)
XzDeltaX86 ==
  <<253, 55, 122, 88, 90, 0, 0, 1, 105, 34, 222, 54, 3, 2, 3, 1, 0, 4, 0, 33, 1, 0, 0, 0, 220, 71, 57, 24, 1, 0, 7, 232, 0, 0, 0, 0, 16, 32, 48, 0, 248, 104, 194, 22, 0, 1, 32, 8, 187, 25, 217, 187, 144, 66, 153, 13, 1, 0, 0, 0, 0, 1, 89, 90>>

XzX86Delta ==
  <<253, 55, 122, 88, 90, 0, 0, 1, 105, 34, 222, 54, 3, 2, 4, 0, 3, 1, 0, 33, 1, 0, 0, 0, 162, 96, 41, 49, 1, 0, 7, 232, 0, 0, 0, 0, 16, 32, 48, 0, 120, 6, 235, 181, 0, 1, 32, 8, 187, 25, 217, 187, 144, 66, 153, 13, 1, 0, 0, 0, 0, 1, 89, 90>>

XzFilteredLarge ==
  <<253, 55, 122, 88, 90, 0, 0, 1, 105, 34, 222, 54, 3, 2, 3, 1, 0, 4, 0, 33, 1, 0, 0, 0, 220, 71, 57, 24, 1, 0, 7, 232, 0, 0, 0, 0, 16, 32, 48, 0, 248, 104, 194, 22, 3, 2, 4, 0, 3, 1, 1, 33, 1, 0, 0, 0, 7, 179, 117, 250, 1, 0, 7, 232, 0, 0, 0, 0, 16, 32, 48, 0, 109, 121, 232, 126, 0, 2, 32, 192, 184, 2, 32, 192, 184, 2, 0, 0, 251, 252, 84, 115, 155, 227, 81, 64, 3, 0, 0, 0, 0, 1, 89, 90>>

XzBadMagic ==
  <<253, 55, 122, 88, 89, 0, 0, 1, 105, 34, 222, 54, 2, 0, 33, 1, 0, 0, 0, 0, 55, 39, 151, 214, 1, 0, 1, 97, 98, 0, 0, 0, 109, 72, 131, 158, 0, 1, 22, 2, 208, 97, 16, 210, 144, 66, 153, 13, 1, 0, 0, 0, 0, 1, 89, 90>>

XzTiny ==
  <<253, 55, 122, 88, 90, 0, 0, 1, 105, 34, 222>>

XzBadFooter ==
  <<253, 55, 122, 88, 90, 0, 0, 1, 105, 34, 222, 54, 2, 0, 33, 1, 0, 0, 0, 0, 55, 39, 151, 214, 1, 0, 1, 97, 98, 0, 0, 0, 109, 72, 131, 158, 0, 1, 22, 2, 208, 97, 16, 210, 144, 66, 153, 13, 1, 0, 0, 0, 0, 1, 89, 89>>

XzBadFooterPadded ==
  <<253, 55, 122, 88, 90, 0, 0, 1, 105, 34, 222, 54, 2, 0, 33, 1, 0, 0, 0, 0, 55, 39, 151, 214, 1, 0, 1, 97, 98, 0, 0, 0, 109, 72, 131, 158, 0, 1, 22, 2, 208, 97, 16, 210, 144, 66, 153, 13, 1, 0, 0, 0, 0, 1, 90, 89, 0, 0, 0, 0>>

XzBadIndex ==
  <<253, 55, 122, 88, 90, 0, 0, 1, 105, 34, 222, 54, 2, 0, 33, 1, 0, 0, 0, 0, 55, 39, 151, 214, 1, 0, 1, 97, 98, 0, 0, 0, 109, 72, 131, 158, 1, 1, 22, 2, 208, 97, 16, 210, 144, 66, 153, 13, 1, 0, 0, 0, 0, 1, 89, 90>>

XzFilter7F ==
  <<253, 55, 122, 88, 90, 0, 0, 1, 105, 34, 222, 54, 2, 1, 127, 0, 33, 1, 0, 0, 216, 206, 72, 98, 1, 0, 1, 97, 98, 0, 0, 0, 109, 72, 131, 158, 0, 1, 22, 2, 208, 97, 16, 210, 144, 66, 153, 13, 1, 0, 0, 0, 0, 1, 89, 90>>

XzFilter02 ==
  <<253, 55, 122, 88, 90, 0, 0, 1, 105, 34, 222, 54, 2, 1, 2, 0, 33, 1, 0, 0, 199, 208, 244, 213, 1, 0, 1, 97, 98, 0, 0, 0, 109, 72, 131, 158, 0, 1, 22, 2, 208, 97, 16, 210, 144, 66, 153, 13, 1, 0, 0, 0, 0, 1, 89, 90>>

XzFilter0B ==
  <<253, 55, 122, 88, 90, 0, 0, 1, 105, 34, 222, 54, 2, 1, 11, 0, 33, 1, 0, 0, 15, 129, 251, 242, 1, 0, 1, 97, 98, 0, 0, 0, 109, 72, 131, 158, 0, 1, 22, 2, 208, 97, 16, 210, 144, 66, 153, 13, 1, 0, 0, 0, 0, 1, 89, 90>>

XzFilter7FSecond ==
  <<253, 55, 122, 88, 90, 0, 0, 1, 105, 34, 222, 54, 2, 0, 33, 1, 0, 0, 0, 0, 55, 39, 151, 214, 1, 0, 1, 97, 98, 0, 0, 0, 109, 72, 131, 158, 2, 1, 127, 0, 33, 1, 0, 0, 216, 206, 72, 98, 1, 0, 1, 97, 98, 0, 0, 0, 109, 72, 131, 158, 0, 2, 22, 2, 22, 2, 0, 0, 139, 160, 4, 43, 62, 48, 13, 139, 2, 0, 0, 0, 0, 1, 89, 90>>

XzFilter7FSecondLarge ==
  <<253, 55, 122, 88, 90, 0, 0, 1, 105, 34, 222, 54, 2, 0, 33, 1, 0, 0, 0, 0, 55, 39, 151, 214, 1, 0, 1, 97, 98, 0, 0, 0, 109, 72, 131, 158, 2, 1, 127, 0, 33, 1, 0, 0, 216, 206, 72, 98, 1, 0, 1, 97, 98, 0, 0, 0, 109, 72, 131, 158, 0, 2, 22, 192, 184, 2, 22, 192, 184, 2, 0, 0, 52, 234, 154, 196, 155, 227, 81, 64, 3, 0, 0, 0, 0, 1, 89, 90>>

\* one block with the PowerPC filter: the branch 48 00 01 01 at offset 4 decodes to 48 00 00 FD
XzPpc ==
  <<253, 55, 122, 88, 90, 0, 0, 1, 105, 34, 222, 54, 2, 1, 5, 0, 33, 1, 0, 0, 127, 224, 241, 200, 1, 0, 7, 0, 0, 0, 0, 72, 0, 1, 1, 0, 26, 33, 142, 248, 0, 1, 28, 8, 68, 96, 42, 200, 144, 66, 153, 13, 1, 0, 0, 0, 0, 1, 89, 90>>

\* one block 'ab' whose header declares LZMA2 first and Delta (distance 1) after it
XzLzma2First ==
  <<253, 55, 122, 88, 90, 0, 0, 1, 105, 34, 222, 54, 2, 1, 33, 1, 0, 3, 1, 0, 155, 163, 189, 107, 1, 0, 1, 97, 98, 0, 0, 0, 109, 72, 131, 158, 0, 1, 22, 2, 208, 97, 16, 210, 144, 66, 153, 13, 1, 0, 0, 0, 0, 1, 89, 90>>

\* one block 'ab' of a stream whose flags declare check type 2, with a check field of 4 bytes
XzCheck2 ==
  <<253, 55, 122, 88, 90, 0, 0, 2, 211, 115, 215, 175, 2, 0, 33, 1, 0, 0, 0, 0, 55, 39, 151, 214, 1, 0, 1, 97, 98, 0, 0, 0, 0, 0, 0, 0, 0, 1, 22, 2, 208, 97, 16, 210, 42, 19, 144, 148, 1, 0, 0, 0, 0, 2, 89, 90>>

\* XZ streams of one and of two blocks 'ab', 'cd' in which the size byte of the last block
\* header is 0x00
XzZeroFirst ==
  <<253, 55, 122, 88, 90, 0, 0, 1, 105, 34, 222, 54, 0, 0, 33, 1, 0, 0, 0, 0, 55, 39, 151, 214, 1, 0, 1, 97, 98, 0, 0, 0, 109, 72, 131, 158, 0, 1, 22, 2, 208, 97, 16, 210, 144, 66, 153, 13, 1, 0, 0, 0, 0, 1, 89, 90>>

XzZeroSecond ==
  <<253, 55, 122, 88, 90, 0, 0, 1, 105, 34, 222, 54, 2, 0, 33, 1, 0, 0, 0, 0, 55, 39, 151, 214, 1, 0, 1, 97, 98, 0, 0, 0, 109, 72, 131, 158, 0, 0, 33, 1, 0, 0, 0, 0, 55, 39, 151, 214, 1, 0, 1, 99, 100, 0, 0, 0, 218, 143, 214, 69, 0, 2, 22, 2, 22, 2, 0, 0, 139, 160, 4, 43, 62, 48, 13, 139, 2, 0, 0, 0, 0, 1, 89, 90>>

\* one block 'ab' and an index of two records, the first with unpadded size 0
XzZeroUnpadded ==
  <<253, 55, 122, 88, 90, 0, 0, 1, 105, 34, 222, 54, 2, 0, 33, 1, 0, 0, 0, 0, 55, 39, 151, 214, 1, 0, 1, 97, 98, 0, 0, 0, 109, 72, 131, 158, 0, 2, 0, 2, 22, 2, 0, 0, 13, 65, 139, 254, 62, 48, 13, 139, 2, 0, 0, 0, 0, 1, 89, 90>>

XzStreams ==
  { XzOne, XzTwo, XzThree, XzEmpty, XzPadded, XzTwoLarge, XzShort, XzLong, XzShortTwo,
    XzDeltaX86, XzX86Delta, XzFilteredLarge, XzBadMagic, XzTiny, XzBadFooter,
    XzBadFooterPadded, XzBadIndex, XzFilter7F, XzFilter02, XzFilter0B, XzFilter7FSecond,
    XzFilter7FSecondLarge, XzPpc, XzLzma2First, XzCheck2,
    XzZeroFirst, XzZeroSecond, XzZeroUnpadded }

\* the streams the reference decoder (xz) accepts, used to build concatenations
XzValidStreams == { XzOne, XzTwo, XzEmpty }

StreamPadding == << 0, 0, 0, 0 >>

MaxStreams == 2

\* the stream padding after an input of one stream is 0..MaxPadding times four zero bytes
MaxPadding == 2

TrailingPadding(k) == [i \in 1..(4 * k) |-> 0]

\* sequences of 1..MaxStreams streams: any one stream, or several valid ones
XzStreamLists ==
  { << x >> : x \in XzStreams }
  \cup UNION { [1..n -> XzValidStreams] : n \in 2..MaxStreams }

RECURSIVE Join(_, _)
Join(ss, pad) ==
  IF Len(ss) = 1 THEN ss[1] ELSE ss[1] \o pad \o Join(Tail(ss), pad)

\* tryLoadNative() finds no native module: decodeXZ runs the fallback
decodeXZ(in, junk) == decodeXZPure(in, junk)

(***************************************************************************)
(* State                                                                   *)
(*   input    the bytes given to the decoders                              *)
(*   streams  the XZ streams input is made of (XZ specification only)      *)
(*   junk     what never-written memory holds in this run                  *)
(*   fed      how many bytes of input were written to the Transform        *)
(*   lz2      the createLzma2Decoder Transform                             *)
(*   res      the call decodeLzma2(input, Properties, unpackSize)          *)
(*   sres     the call decodeLzma2(input, Properties, undefined, sink)     *)
(*   xz       the createXZDecoder Transform                                *)
(*   xres     the call decodeXZ(input)                                     *)
(*   filter   the filter under test (filter specification only)            *)
(*   ft       the filter's streaming decoder                               *)
(*   fres     the call of the filter's one-shot decoder on input           *)
(*   rt       the call of x86Code to encode input and decode the result    *)
(***************************************************************************)
VARIABLES input, streams, junk, fed, lz2, res, sres, xz, xres, filter, ft, fres, rt, run, call, core,
          ncall

vars == << input, streams, junk, fed, lz2, res, sres, xz, xres, filter, ft, fres, rt, run, call, core,
          ncall >>

\* the state of the filter specification, and the state it leaves alone
filterVars == << filter, ft, fres, rt >>

lzVars == << streams, junk, lz2, res, sres, xz, xres >>

\* no filter is under test; no call has been made
NoFilter == [id |-> 0, props |-> << >>]

NoFilterCall == [called |-> FALSE, encoded |-> << >>, out |-> << >>]

NoCall == [called |-> FALSE, unpackSize |-> 0, r |-> Thrown(NoErr, 0)]

NoXzCall == [called |-> FALSE, r |-> [err |-> NoErr, out |-> << >>]]

\* no pure function has been applied: apply names the function to apply and fn the one
\* that was applied; offset is the offset into input that decodeMultibyte and
\* parseLzma2ChunkHeader are given, prop the argument of parseLzma2DictionarySize
NoPureCall ==
  [apply |-> "decodeMultibyte", fn |-> "", offset |-> 0, prop |-> 0,
   r |-> [err |-> "", value |-> 0, bytesRead |-> 0]]

\* the LZMA core is not under observation.  In the specification of the core the record is
\* Lzma2Decoder.decode in progress, one chunk header or one pass of the loop of
\* decodeToBuffer at a time:
\*   m          the LzmaDecoder,  offset  the input offset of the next chunk header
\*   outputPos  the write position in the output buffer
\*   chunk, dataOffset, outEnd   the LZMA chunk being decoded
\*   pc         "header": a chunk header is next, "symbol": the loop is running
\*   err        the error decode threw
\*   event      observation: the last event since the last state reset ("none" after it)
\*   before     observation: state, rep0..rep3 and cumPos in front of that event
NoCore ==
  [m |-> NewLzmaDecoder(FALSE, 0), offset |-> 0, outputPos |-> 0, chunk |-> NoChunk,
   dataOffset |-> 0, outEnd |-> 0, pc |-> "idle", err |-> NoErr, event |-> "none",
   before |-> [state |-> 0, rep0 |-> 0, rep1 |-> 0, rep2 |-> 0, rep3 |-> 0, cumPos |-> 0]]

\* no call with a callback has been made.
\*   fn          the function called: "decodeXZ" or "decode7zLzma2"
\*   native      what the native decoder does: there is none ("absent"), the call throws,
\*               it returns a value that is no promise, or a promise that resolves or rejects
\*   value       the value a native promise resolves with
\*   cbThrows    whether the first invocation of the caller's callback throws
\*   pc          "idle", "promise" (a native promise is pending), "immediate" (the task of
\*               runSync is scheduled) or "done"
\*   onceCalled  the flag of the once() wrapper around the callback
\*   calls       the arguments of the invocations of the caller's callback, in order
NoRun ==
  [fn |-> "", native |-> "absent", value |-> << >>, cbThrows |-> FALSE, pc |-> "idle",
   onceCalled |-> FALSE, calls |-> << >>]

\* no call of tryNativeDecode has been made.
\*   methods         whether methods is an object (FALSE: null or undefined)
\*   decompress      methods.decompress: "absent", or what a call of it does: it throws,
\*                   returns a value that is no thenable, or returns a promise that
\*                   resolves or rejects
\*   decompressSync  methods.decompressSync: "absent", or a call of it throws or returns
\*   value           what the promise resolves with and decompressSync returns: a Buffer or
\*                   not (a Uint8Array), and its length
\*   expectedSize    the argument: given (a number) or not, and the number
\*   pc              "idle", "promise" (the handlers are attached to a pending promise),
\*                   "scheduled" (the callback is scheduled) or "done"
\*   returned        "" or the result of tryNativeDecode, "true" or "false"
\*   callbacks       the values callback was invoked with, fallbacks the number of
\*                   invocations of fallback
NoNative ==
  [methods |-> FALSE, decompress |-> "absent", decompressSync |-> "absent",
   value |-> [isBuffer |-> TRUE, length |-> 0], expectedSize |-> [given |-> FALSE, n |-> 0],
   pc |-> "idle", returned |-> "", callbacks |-> << >>, fallbacks |-> 0]

\* the sizes of the next write: up to MaxWrite bytes, or all that is left
WriteSizes == { n \in 1..(Len(input) - fed) : n <= MaxWrite \/ n = Len(input) - fed }

Init ==
  /\ input \in Lzma2Inputs
  /\ streams = << >>
  /\ junk \in JunkValues
  /\ fed = 0
  /\ lz2 = createLzma2Decoder(Properties, junk)
  /\ res = NoCall
  /\ sres = NoCall
  /\ xz = createXZDecoder
  /\ xres = NoXzCall
  /\ filter = NoFilter
  /\ ft = createBufferingDecoder
  /\ fres = NoFilterCall
  /\ rt = NoFilterCall
  /\ run = NoRun
  /\ call = NoPureCall
  /\ core = NoCore
  /\ ncall = NoNative

\* stream.write(chunk) on the createLzma2Decoder Transform
Lzma2Write ==
  /\ lz2.err = NoErr /\ ~lz2.ended
  /\ \E n \in WriteSizes :
       /\ lz2' = createLzma2Decoder_transform(lz2, Slice(input, fed, fed + n))
       /\ fed' = fed + n
  /\ UNCHANGED << run, call, core, filterVars, input, streams, junk, res, sres, xz, xres, ncall >>

\* stream.end(): flush
Lzma2End ==
  /\ lz2.err = NoErr /\ ~lz2.ended /\ fed = Len(input)
  /\ lz2' = createLzma2Decoder_flush(lz2)
  /\ UNCHANGED << run, call, core, filterVars, input, streams, junk, fed, res, sres, xz, xres, ncall >>

\* decodeLzma2(input, properties, unpackSize): unpackSize absent (0) or the declared size
DecodeLzma2 ==
  /\ ~res.called
  /\ \E unpackSize \in {0, DeclaredSize(input, 0)} :
       res' = [called |-> TRUE, unpackSize |-> unpackSize,
               r |-> decodeLzma2(input, Properties, unpackSize, FALSE, junk)]
  /\ UNCHANGED << run, call, core, filterVars, input, streams, junk, fed, lz2, sres, xz, xres, ncall >>

\* decodeLzma2(input, properties, undefined, sink)
DecodeLzma2Sink ==
  /\ ~sres.called
  /\ sres' = [called |-> TRUE, unpackSize |-> 0, r |-> decodeLzma2(input, Properties, 0, TRUE, junk)]
  /\ UNCHANGED << run, call, core, filterVars, input, streams, junk, fed, lz2, res, xz, xres, ncall >>

Next == Lzma2Write \/ Lzma2End \/ DecodeLzma2 \/ DecodeLzma2Sink

Spec == Init /\ [][Next]_vars

(***************************************************************************)
(* The XZ specification: the same state, with XZ files as input            *)
(***************************************************************************)
InitXZ ==
  /\ streams \in XzStreamLists
  /\ \E pad \in { << >>, StreamPadding }, k \in 0..MaxPadding :
       /\ k > 0 => Len(streams) = 1
       /\ input = Join(streams, pad) \o TrailingPadding(k)
  /\ junk \in JunkValues
  /\ fed = 0
  /\ lz2 = createLzma2Decoder(Properties, junk)
  /\ res = NoCall
  /\ sres = NoCall
  /\ xz = createXZDecoder
  /\ xres = NoXzCall
  /\ filter = NoFilter
  /\ ft = createBufferingDecoder
  /\ fres = NoFilterCall
  /\ rt = NoFilterCall
  /\ run = NoRun
  /\ call = NoPureCall
  /\ core = NoCore
  /\ ncall = NoNative

\* stream.write(chunk) on the createXZDecoder Transform
XzWrite ==
  /\ ~xz.ended
  /\ \E n \in WriteSizes :
       /\ xz' = createXZDecoder_transform(xz, Slice(input, fed, fed + n))
       /\ fed' = fed + n
  /\ UNCHANGED << run, call, core, filterVars, input, streams, junk, lz2, res, sres, xres, ncall >>

\* stream.end(): flush decodes every block
XzEnd ==
  /\ ~xz.ended /\ fed = Len(input)
  /\ xz' = createXZDecoder_flush(xz, junk)
  /\ UNCHANGED << run, call, core, filterVars, input, streams, junk, fed, lz2, res, sres, xres, ncall >>

\* decodeXZ(input)
DecodeXZ ==
  /\ ~xres.called
  /\ xres' = [called |-> TRUE, r |-> decodeXZ(input, junk)]
  /\ UNCHANGED << run, call, core, filterVars, input, streams, junk, fed, lz2, res, sres, xz, ncall >>

NextXZ == XzWrite \/ XzEnd \/ DecodeXZ

SpecXZ == InitXZ /\ [][NextXZ]_vars

(***************************************************************************)
(* Filter inputs                                                           *)
(***************************************************************************)
MaxFilterLen == 6

\* all byte sequences of length 0..n over the bytes of alphabet
BytesUpTo(alphabet, n) == UNION { [1..k -> alphabet] : k \in 0..n }

\* 16-byte IA64 bundles: template 0x16 with a branch in slot 0 (immediate 0, immediate with
\* every bit set and sign, immediate 1 with the bits 27..31 set), template 0x17 with a branch in
\* every slot, template 0x16 without branch opcode, template 0x10, and bytes 0xff
Ia64Bundles ==
  { << 22, 0, 0, 0, 128, 0, 0, 0, 0, 0, 0, 0, 0, 0, 0, 0 >>,
    << 246, 255, 255, 255, 159, 254, 255, 255, 255, 255, 255, 255, 255, 255, 255, 255 >>,
    << 54, 165, 32, 0, 191, 128, 0, 0, 0, 0, 0, 0, 0, 0, 0, 0 >>,
    << 23, 0, 96, 0, 160, 0, 0, 64, 0, 8, 40, 0, 0, 1, 0, 80 >>,
    << 22, 0, 32, 0, 64, 0, 0, 0, 0, 0, 0, 0, 0, 0, 0, 0 >>,
    << 16, 0, 0, 0, 128, 0, 0, 0, 0, 0, 0, 0, 0, 0, 0, 160 >>,
    << 255, 255, 255, 255, 255, 255, 255, 255, 255, 255, 255, 255, 255, 255, 255, 255 >> }

\* two bundles, alone or followed by two bytes of a third
Ia64Inputs ==
  { a \o b \o tail : a \in Ia64Bundles, b \in Ia64Bundles, tail \in { << >>, << 22, 255 >> } }

\* x86 inputs in which an E8 is left alone because of the E8 bytes before it, which a chunk
\* boundary separates from it
X86MaskInputs ==
  { << 232, 232, 232, 232, 232, 232, 0 >>, << 232, 232, 232, 232, 232, 8, 255 >> }

\* a filter (id and properties, as parseBlockHeader returns it) and the bytes to decode
FilterCases ==
  { [filter |-> [id |-> FILTER_DELTA, props |-> p], input |-> b] :
      p \in { << >>, << 0 >>, << 1 >>, << 2 >>, << 255 >> }, b \in BytesUpTo({1, 255}, MaxFilterLen) }
  \cup { [filter |-> [id |-> FILTER_BCJ_X86, props |-> << >>], input |-> b] :
           b \in BytesUpTo({232, 0, 255}, MaxFilterLen) \cup X86MaskInputs }
  \cup { [filter |-> [id |-> FILTER_BCJ_PPC, props |-> << >>], input |-> b] :
           b \in BytesUpTo({75, 1}, MaxFilterLen + 2) }
  \cup { [filter |-> [id |-> FILTER_BCJ_IA64, props |-> << >>], input |-> b] : b \in Ia64Inputs }

(***************************************************************************)
(* The filter specification: a filter, its streaming decoder and its       *)
(* one-shot decoder on the same bytes                                      *)
(***************************************************************************)
\* the Transform the filter's create function returns
FilterCreate(f) ==
  IF f.id = FILTER_DELTA THEN createDeltaDecoder(f.props)
  ELSE IF f.id = FILTER_BCJ_X86 THEN createBcjDecoder
  ELSE createBufferingDecoder

FilterTransform(f, T, chunk) ==
  IF f.id = FILTER_DELTA THEN createDeltaDecoder_transform(T, chunk)
  ELSE IF f.id = FILTER_BCJ_X86 THEN createBcjDecoder_transform(T, chunk)
  ELSE createBufferingDecoder_transform(T, chunk)

FilterFlush(f, T) ==
  IF f.id = FILTER_DELTA THEN createDeltaDecoder_flush(T)
  ELSE IF f.id = FILTER_BCJ_X86 THEN createBcjDecoder_flush(T)
  ELSE IF f.id = FILTER_BCJ_PPC THEN createBufferingDecoder_flush(T, decodeBcjPpc(T.chunks))
  ELSE createBufferingDecoder_flush(T, decodeBcjIa64(T.chunks))

\* the filter's one-shot decoder
FilterDecodeSync(f, data) ==
  IF f.id = FILTER_DELTA THEN decodeDelta(data, f.props)
  ELSE IF f.id = FILTER_BCJ_X86 THEN decodeBcj(data)
  ELSE IF f.id = FILTER_BCJ_PPC THEN decodeBcjPpc(data)
  ELSE decodeBcjIa64(data)

InitFilter ==
  /\ \E c \in FilterCases : filter = c.filter /\ input = c.input
  /\ streams = << >>
  /\ junk = 0
  /\ fed = 0
  /\ lz2 = createLzma2Decoder(Properties, 0)
  /\ res = NoCall
  /\ sres = NoCall
  /\ xz = createXZDecoder
  /\ xres = NoXzCall
  /\ ft = FilterCreate(filter)
  /\ fres = NoFilterCall
  /\ rt = NoFilterCall
  /\ run = NoRun
  /\ call = NoPureCall
  /\ core = NoCore
  /\ ncall = NoNative

\* stream.write(chunk) on the filter's Transform
FilterWrite ==
  /\ ~ft.ended
  /\ \E n \in WriteSizes :
       /\ ft' = FilterTransform(filter, ft, Slice(input, fed, fed + n))
       /\ fed' = fed + n
  /\ UNCHANGED << input, filter, fres, rt, lzVars, run, call, core, ncall >>

\* stream.end(): flush
FilterEnd ==
  /\ ~ft.ended /\ fed = Len(input)
  /\ ft' = FilterFlush(filter, ft)
  /\ UNCHANGED << input, filter, fed, fres, rt, lzVars, run, call, core, ncall >>

\* the one-shot decoder on the whole input
FilterDecode ==
  /\ ~fres.called
  /\ fres' = [called |-> TRUE, encoded |-> << >>, out |-> FilterDecodeSync(filter, input)]
  /\ UNCHANGED << input, filter, fed, ft, rt, lzVars, run, call, core, ncall >>

\* x86Code in encode direction on the input, then in decode direction on the result, each
\* from the initial state at position 0
X86RoundTrip ==
  /\ filter.id = FILTER_BCJ_X86 /\ ~rt.called
  /\ LET encoded == x86Code(BcjX86State, 0, TRUE, input, Len(input)).buffer
     IN  rt' = [called |-> TRUE, encoded |-> encoded,
                out |-> x86Code(BcjX86State, 0, FALSE, encoded, Len(encoded)).buffer]
  /\ UNCHANGED << input, filter, fed, ft, fres, lzVars, run, call, core, ncall >>

NextFilter == FilterWrite \/ FilterEnd \/ FilterDecode \/ X86RoundTrip

SpecFilter == InitFilter /\ [][NextFilter]_vars

(***************************************************************************)
(* The callback protocol of decodeXZ and decode7zLzma2.  decode7zLzma has  *)
(* the code of decode7zLzma2 with decodeLzma in the place of decodeLzma2.  *)
(***************************************************************************)
RunFunctions == { "decodeXZ", "decode7zLzma2" }

NativeOutcomes == { "absent", "throws", "value", "resolves", "rejects" }

\* the exception of a callback that throws
ErrCallback == "callback threw"

\* an invocation of the caller's callback
callback(R, err, out) == [R EXCEPT !.calls = Append(@, [err |-> err, out |-> out])]

\* whether the next invocation of the caller's callback throws
callbackThrows(R) == R.cbThrows /\ R.calls = << >>

\* once(callback): the wrapper invokes callback on its first call only
once(R, err, out) ==
  IF R.onceCalled THEN R ELSE callback([R EXCEPT !.onceCalled = TRUE], err, out)

\* try { cb(null, r) } catch (err) { cb(err) } for the result r of the pure decoder, cb
\* being the caller's callback (wrapped = FALSE) or its once() wrapper (wrapped = TRUE)
tryCallback(R, r, wrapped) ==
  LET cb(S, err, out) == IF wrapped THEN once(S, err, out) ELSE callback(S, err, out)
      throws == callbackThrows(R) /\ (wrapped => ~R.onceCalled)
  IN  IF r.err # NoErr THEN cb(R, r.err, << >>)
      ELSE IF throws THEN cb(cb(R, NoErr, r.out), ErrCallback, << >>)
      ELSE cb(R, NoErr, r.out)

\* fallback of decodeXZ: runs at once
decodeXZ_fallback(R, in, junkv) ==
  [tryCallback(R, decodeXZPure(in, junkv), FALSE) EXCEPT !.pc = "done"]

\* runSync(fn, callback): the task is scheduled with setImmediate
runSync(R) == [R EXCEPT !.pc = "immediate"]

\* the scheduled task of runSync, fn being decodeLzma2(data, properties, unpackSize)
runSync_task(R, in, junkv) ==
  [tryCallback(R, decodeLzma2(in, Properties, 0, FALSE, junkv), TRUE) EXCEPT !.pc = "done"]

\* worker of decodeXZ: a native promise is awaited, anything else runs the fallback
decodeXZ_worker(R, in, junkv) ==
  IF R.native \in { "resolves", "rejects" } THEN [R EXCEPT !.pc = "promise"]
  ELSE decodeXZ_fallback(R, in, junkv)

\* decode7zLzma2 with a callback: runDecode wraps it with once() and runs the executor
decode7zLzma2(R) ==
  IF R.native \in { "resolves", "rejects" } THEN [R EXCEPT !.pc = "promise"]
  ELSE runSync(R)

InitRun ==
  /\ \E fn \in RunFunctions, native \in NativeOutcomes, cbThrows \in BOOLEAN,
        value \in { << >>, << 97 >> } :
       /\ run = [NoRun EXCEPT !.fn = fn, !.native = native, !.cbThrows = cbThrows,
                              !.value = IF native = "resolves" THEN value ELSE << >>]
       /\ IF fn = "decodeXZ" THEN input \in XzStreams ELSE input \in Lzma2Inputs
  /\ streams = << >>
  /\ junk = 0
  /\ fed = 0
  /\ lz2 = createLzma2Decoder(Properties, 0)
  /\ res = NoCall
  /\ sres = NoCall
  /\ xz = createXZDecoder
  /\ xres = NoXzCall
  /\ filter = NoFilter
  /\ ft = createBufferingDecoder
  /\ fres = NoFilterCall
  /\ rt = NoFilterCall
  /\ call = NoPureCall
  /\ core = NoCore
  /\ ncall = NoNative

\* decodeXZ(input, callback) or decode7zLzma2(input, properties, undefined, callback)
RunCall ==
  /\ run.pc = "idle"
  /\ run' = IF run.fn = "decodeXZ" THEN decodeXZ_worker(run, input, junk) ELSE decode7zLzma2(run)
  /\ UNCHANGED << input, fed, filterVars, lzVars, call, core, ncall >>

\* the native promise settles: promise.then((value) => cb(null, value), fallback)
RunSettle ==
  /\ run.pc = "promise"
  /\ run' = IF run.native = "resolves"
              THEN [(IF run.fn = "decodeXZ" THEN callback(run, NoErr, run.value)
                     ELSE once(run, NoErr, run.value)) EXCEPT !.pc = "done"]
            ELSE IF run.fn = "decodeXZ" THEN decodeXZ_fallback(run, input, junk)
            ELSE runSync(run)
  /\ UNCHANGED << input, fed, filterVars, lzVars, call, core, ncall >>

\* the task scheduled by runSync runs
RunImmediate ==
  /\ run.pc = "immediate"
  /\ run' = runSync_task(run, input, junk)
  /\ UNCHANGED << input, fed, filterVars, lzVars, call, core, ncall >>

NextRun == RunCall \/ RunSettle \/ RunImmediate

SpecRun == InitRun /\ [][NextRun]_vars

(***************************************************************************)
(* The pure functions, applied to arguments drawn from bounded sets        *)
(***************************************************************************)
\* the longest buffer handed to decodeMultibyte
MaxMultibyte == 5

\* bytes with and without the continuation bit, at both ends of the seven value bits
MultibyteBytes == { 0, 1, 127, 128, 255 }

MultibyteBuffers == UNION { [1..n -> MultibyteBytes] : n \in 0..MaxMultibyte }

\* the bytes after the control byte handed to parseLzma2ChunkHeader: at most MaxHeaderTail
MaxHeaderTail == 5

HeaderTails == UNION { [1..n -> { 0, 255 }] : n \in 0..MaxHeaderTail }

\* the property bytes handed to parseLzma2DictionarySize
DictionaryProps == 0..42

\* the most calls of decodeBit made on one stream
MaxBits == 140

\* the most bytes of a stream of the range decoder; the bytes read past its end are 0
MaxBitBytes == 6

\* the streams decodeBit is applied to: all sequences of the bytes 0x00 and 0xFF
BitStreams == UNION { [1..n -> { 0, 255 }] : n \in 0..MaxBitBytes }

InitPure ==
  /\ \/ /\ input \in MultibyteBuffers
        /\ call \in { [NoPureCall EXCEPT !.offset = o] : o \in 0..1 }
     \/ /\ input = << >>
        /\ call \in { [NoPureCall EXCEPT !.apply = "parseLzma2DictionarySize", !.prop = p] :
                       p \in DictionaryProps }
     \/ \E o \in 0..1, control \in 0..255, tail \in HeaderTails :
          /\ input = [i \in 1..o |-> 255] \o << control >> \o tail
          /\ call = [NoPureCall EXCEPT !.apply = "parseLzma2ChunkHeader", !.offset = o]
     \/ /\ input \in BitStreams
        /\ call = [NoPureCall EXCEPT
                     !.apply = "decodeBit",
                     !.r = RangeDecoder_setInput(NewLzmaDecoder(FALSE, 0), input, 0)]
  /\ streams = << >>
  /\ junk = 0
  /\ fed = 0
  /\ lz2 = createLzma2Decoder(Properties, 0)
  /\ res = NoCall
  /\ sres = NoCall
  /\ xz = createXZDecoder
  /\ xres = NoXzCall
  /\ filter = NoFilter
  /\ ft = createBufferingDecoder
  /\ fres = NoFilterCall
  /\ rt = NoFilterCall
  /\ run = NoRun
  /\ core = NoCore
  /\ ncall = NoNative

\* decodeMultibyte(input, offset)
DecodeMultibyte ==
  /\ call.fn = "" /\ call.apply = "decodeMultibyte"
  /\ call' = [call EXCEPT !.fn = "decodeMultibyte", !.r = decodeMultibyte(input, call.offset)]
  /\ UNCHANGED << input, fed, filterVars, lzVars, run, core, ncall >>

\* parseLzma2DictionarySize(prop), and new Lzma2Decoder(properties) with properties[0] = prop:
\* the result is kept as two 16-bit halves, with the size and the window of the decoder
ParseLzma2DictionarySize ==
  /\ call.fn = "" /\ call.apply = "parseLzma2DictionarySize"
  /\ call' = [call EXCEPT !.fn = "parseLzma2DictionarySize",
                          !.r = Lzma2Decoder_constructor(call.prop, junk)]
  /\ UNCHANGED << input, fed, filterVars, lzVars, run, core, ncall >>

\* parseLzma2ChunkHeader(input, offset)
ParseLzma2ChunkHeader ==
  /\ call.fn = "" /\ call.apply = "parseLzma2ChunkHeader"
  /\ call' = [call EXCEPT !.fn = "parseLzma2ChunkHeader",
                          !.r = parseLzma2ChunkHeader(input, call.offset)]
  /\ UNCHANGED << input, fed, filterVars, lzVars, run, core, ncall >>

\* rangeDecoder.decodeBit(probs, 0) after setInput(input, 0), with probs[0] initially
\* kProbInitValue; call.offset counts the calls
DecodeBit ==
  /\ call.apply = "decodeBit" /\ call.offset < MaxBits
  /\ call' = [call EXCEPT !.fn = "decodeBit", !.offset = call.offset + 1,
                          !.r = RangeDecoder_decodeBit(call.r, 0)]
  /\ UNCHANGED << input, fed, filterVars, lzVars, run, core, ncall >>

NextPure == DecodeMultibyte \/ ParseLzma2DictionarySize \/ ParseLzma2ChunkHeader \/ DecodeBit

SpecPure == InitPure /\ [][NextPure]_vars

(***************************************************************************)
(* The LZMA core inside Lzma2Decoder.decode, one pass of its loop at a time *)
(***************************************************************************)
CoreInputs ==
  Lzma2Inputs \cup { Flatten(ScenReps) \o << 0 >>, Flatten(ScenStale) \o << 0 >> }

InitCore ==
  /\ input \in CoreInputs
  /\ junk \in JunkValues
  /\ core = [NoCore EXCEPT
               !.m = [Lzma2Decoder_new(Properties[1], FALSE, junk) EXCEPT
                        !.output = NoBytes, !.outputLen = DeclaredSize(input, 0)],
               !.pc = "header"]
  /\ streams = << >>
  /\ fed = 0
  /\ lz2 = createLzma2Decoder(Properties, 0)
  /\ res = NoCall
  /\ sres = NoCall
  /\ xz = createXZDecoder
  /\ xres = NoXzCall
  /\ filter = NoFilter
  /\ ft = createBufferingDecoder
  /\ fres = NoFilterCall
  /\ rt = NoFilterCall
  /\ run = NoRun
  /\ call = NoPureCall
  /\ ncall = NoNative

\* the head of the while loop of decode: the chunk header, the resets and the properties;
\* an uncompressed chunk is copied and fed, an LZMA chunk enters decodeToBuffer
CoreChunk ==
  /\ core.pc = "header"
  /\ LET chunk == parseLzma2ChunkHeader(input, core.offset)
         dataOffset == core.offset + chunk.headerSize
         m == Lzma2Decoder_resets(core.m, chunk)
         uncompData == Slice(input, dataOffset, dataOffset + chunk.uncompSize)
         afterReset == IF chunk.stateReset THEN "none" ELSE core.event
     IN  core' =
           IF chunk.err # NoErr THEN [core EXCEPT !.pc = "done", !.err = chunk.err]
           ELSE IF ~chunk.success THEN [core EXCEPT !.pc = "done", !.err = ErrTruncatedHeader]
           ELSE IF chunk.type = "end" THEN [core EXCEPT !.pc = "done"]
           ELSE IF chunk.type = "uncompressed"
             THEN [core EXCEPT
                     !.m = LzmaDecoder_feedUncompressed(CopyInto(m, uncompData, core.outputPos),
                                                        uncompData),
                     !.outputPos = core.outputPos + Len(uncompData),
                     !.offset = dataOffset + chunk.uncompSize,
                     !.event = afterReset]
           ELSE [core EXCEPT
                   !.m = LzmaDecoder_decodeCore_start(RangeDecoder_setInput(m, input, dataOffset),
                                                      core.outputPos, useSolid(chunk)),
                   !.chunk = chunk, !.dataOffset = dataOffset,
                   !.outEnd = core.outputPos + chunk.uncompSize,
                   !.pc = "symbol", !.event = afterReset]
  /\ UNCHANGED << input, fed, filterVars, lzVars, run, call, ncall >>

\* one pass of the while loop of decodeToBuffer
CoreSymbol ==
  /\ core.pc = "symbol"
  /\ core.m.err = NoErr /\ ~core.m.brk /\ core.m.outPos < core.outEnd
  /\ core' = [core EXCEPT
               !.m = LzmaDecoder_symbol(core.m, TRUE),
               !.event = LzmaDecoder_event(core.m),
               !.before = [state |-> core.m.state, rep0 |-> core.m.rep0, rep1 |-> core.m.rep1,
                           rep2 |-> core.m.rep2, rep3 |-> core.m.rep3, cumPos |-> core.m.cumPos]]
  /\ UNCHANGED << input, fed, filterVars, lzVars, run, call, ncall >>

\* the loop of decodeToBuffer is left: it returns to decode, or its error ends decode
CoreChunkEnd ==
  /\ core.pc = "symbol"
  /\ ~(core.m.err = NoErr /\ ~core.m.brk /\ core.m.outPos < core.outEnd)
  /\ LET mb == LzmaDecoder_decodeCore_finish(core.m, core.outputPos)
     IN  core' = IF mb.err # NoErr THEN [core EXCEPT !.m = mb, !.pc = "done", !.err = mb.err]
                 ELSE [core EXCEPT !.m = mb, !.pc = "header",
                                   !.outputPos = core.outputPos + mb.val,
                                   !.offset = core.dataOffset + core.chunk.compSize]
  /\ UNCHANGED << input, fed, filterVars, lzVars, run, call, ncall >>

NextCore == CoreChunk \/ CoreSymbol \/ CoreChunkEnd

SpecCore == InitCore /\ [][NextCore]_vars

(***************************************************************************)
(* Properties of the pure functions, checked under SpecPure                *)
(***************************************************************************)
\* the bytes of input from offset on continue (bit 7 set) for the first n of them
MultibyteContinues(offset, n) ==
  /\ offset + n <= Len(input)
  /\ \A i \in 1..n : input[offset + i] >= 128

\* the little-endian base-128 value of the n bytes of input from offset on
MultibyteSum(offset, n) ==
  LET sum[i \in 0..n] ==
        IF i = 0 THEN 0 ELSE sum[i - 1] + (input[offset + i] % 128) * 128 ^ (i - 1)
  IN  sum[n]

\* C28: decodeMultibyte returns the base-128 value (below 2^28) and the length of an
\* encoding of 1 to 4 bytes, fails with 'Multibyte integer too large' when the encoding
\* continues past 4 bytes, and with 'Truncated multibyte integer' when the buffer ends
\* before a byte without the continuation bit; where four continuation bytes end the
\* buffer both failures describe the input.
C28_MultibyteDecoded ==
  call.fn = "decodeMultibyte" =>
    LET o == call.offset
        ends(n) == /\ MultibyteContinues(o, n - 1)
                   /\ o + n <= Len(input)
                   /\ input[o + n] < 128
    IN  /\ \A n \in 1..4 :
             ends(n) => /\ call.r.err = NoErr
                        /\ call.r.value = MultibyteSum(o, n)
                        /\ call.r.value < 2 ^ 28
                        /\ call.r.bytesRead = n
        /\ (MultibyteContinues(o, 4) /\ o + 4 < Len(input)) =>
             call.r.err = ErrMultibyteTooLarge
        /\ (\E n \in 0..3 : MultibyteContinues(o, n) /\ o + n >= Len(input)) =>
             call.r.err = ErrTruncatedMultibyte
        /\ (MultibyteContinues(o, 4) /\ o + 4 = Len(input)) =>
             call.r.err \in { ErrMultibyteTooLarge, ErrTruncatedMultibyte }

\* a four-byte encoding of the largest value was decoded
C28_Witness ==
  /\ call.fn = "decodeMultibyte"
  /\ call.offset = 1
  /\ call.r.err = NoErr
  /\ call.r.bytesRead = 4
  /\ call.r.value = 2 ^ 28 - 1

\* (2 | (prop & 1)) << ((prop >> 1) + 11) as an unsigned 32-bit value, in 16-bit halves
DictionarySizeHalves(prop) ==
  LET base == 2 + (prop % 2)
      exp == (prop \div 2) + 11
  IN  IF exp >= 16 THEN << (base * 2 ^ (exp - 16)) % 65536, 0 >>
      ELSE << (base * 2 ^ exp) \div 65536, (base * 2 ^ exp) % 65536 >>

\* C31: for prop in 0..40 parseLzma2DictionarySize returns, read as an unsigned 32-bit
\* value, 0xFFFFFFFF for prop 40 and (2 | (prop & 1)) << ((prop >> 1) + 11) otherwise, and
\* the decoder constructed with the property has a dictionary of that size; for prop > 40
\* it throws.
C31_DictionarySize ==
  call.fn = "parseLzma2DictionarySize" =>
    /\ call.prop > 40 => call.r.err = ErrDictProp
    /\ call.prop = 40 => (call.r.err = NoErr /\ << call.r.hi, call.r.lo >> = << 65535, 65535 >>)
    /\ call.prop < 40 =>
         /\ call.r.err = NoErr
         /\ << call.r.hi, call.r.lo >> = DictionarySizeHalves(call.prop)
         /\ << (call.r.dictionarySize \div 65536) % 65536, call.r.dictionarySize % 65536 >>
              = DictionarySizeHalves(call.prop)

\* C33: for every control byte c at the offset, with b1..b4 the bytes after it,
\* parseLzma2ChunkHeader yields the end for c = 0x00; for c = 0x01 and 0x02 an uncompressed
\* chunk with a header of 3 bytes, uncompSize = (b1 << 8 | b2) + 1 and dictReset iff
\* c = 0x01; for c >= 0x80 an LZMA chunk with uncompSize = ((c & 0x1F) << 16 | b1 << 8 | b2)
\* + 1, compSize = (b3 << 8 | b4) + 1, stateReset iff c >= 0xA0, a properties byte and a
\* header of 6 instead of 5 bytes iff c >= 0xC0 and dictReset iff c >= 0xE0; with fewer
\* bytes than the header needs it fails with the number of missing bytes.
C33_ChunkHeader ==
  call.fn = "parseLzma2ChunkHeader" =>
    LET o == call.offset
        available == Len(input) - o
        c == input[o + 1]
        b(i) == input[o + 1 + i]
        need == IF c = 0 THEN 1 ELSE IF c \in { 1, 2 } THEN 3 ELSE IF c >= 192 THEN 6 ELSE 5
        r == call.r
    IN  /\ available = 0 => (~r.success /\ r.err = NoErr /\ r.needBytes = 1)
        /\ (available > 0 /\ (c < 3 \/ c >= 128) /\ available < need)
             => (~r.success /\ r.err = NoErr /\ r.needBytes = need - available)
        /\ (available > 0 /\ c = 0) => (r.success /\ r.type = "end")
        /\ (available >= 3 /\ c \in { 1, 2 })
             => /\ r.success /\ r.type = "uncompressed" /\ r.headerSize = 3
                /\ r.uncompSize = b(1) * 256 + b(2) + 1
                /\ r.dictReset <=> c = 1
        /\ (available > 0 /\ c >= 128 /\ available >= need)
             => /\ r.success /\ r.type = "lzma"
                /\ r.uncompSize = (c % 32) * 65536 + b(1) * 256 + b(2) + 1
                /\ r.compSize = b(3) * 256 + b(4) + 1
                /\ r.stateReset <=> c >= 160
                /\ r.newProps <=> c >= 192
                /\ r.headerSize = (IF c >= 192 THEN 6 ELSE 5)
                /\ r.dictReset <=> c >= 224

\* the header of an LZMA chunk with properties was parsed at offset 1, its sizes being
\* 0x1F00FF + 1 and 0xFF00 + 1
C33_Witness ==
  /\ call.fn = "parseLzma2ChunkHeader"
  /\ call.offset = 1
  /\ input = << 255, 255, 0, 255, 255, 0, 255 >>
  /\ call.r.success /\ call.r.type = "lzma" /\ call.r.headerSize = 6
  /\ call.r.uncompSize = 2031872
  /\ call.r.compSize = 65281
  /\ call.r.dictReset /\ call.r.stateReset /\ call.r.newProps

\* C18: a finished call of decodeXZ or decode7zLzma2 has invoked the caller's callback
\* exactly once, whatever the native decoder did and even when the callback's first
\* invocation threw.
C18_CallbackExactlyOnce == run.pc = "done" => Len(run.calls) = 1

(***************************************************************************)
(* Properties of the XZ container, checked under SpecXZ                    *)
(***************************************************************************)
\* the block records of the index of input
XzRecords == parseStream(input).blockRecords

\* what createXZDecoder pushes when the whole of s is written and the stream is ended
XzStreamed(s) == createXZDecoder_flush(createXZDecoder_transform(createXZDecoder, s), junk)

RECURSIVE SumCounts(_)
SumCounts(log) == IF log = << >> THEN 0 ELSE Head(log).count + SumCounts(Tail(log))

\* the number of bytes the LZMA2 decoder produced for the block of a record
XzDecodedSize(record) ==
  LET blockInfo == parseBlockHeader(input, record.compressedPos)
      dataStart == record.compressedPos + blockInfo.headerSize
  IN  SumCounts(decodeLzma2(Slice(input, dataStart, dataStart + record.compressedDataSize),
                            blockInfo.lzma2Props, record.uncompressedSize, FALSE, junk).log)

\* C1: for one XZ stream whose index lists n >= 1 blocks, each of which decodes, decodeXZ
\* returns the outputs of all n blocks, concatenated in index order, whatever n and the
\* total uncompressed size are.
C1_DecodeXZReturnsAllBlocks ==
  (xres.called /\ Len(streams) = 1 /\ parseStream(input).err = NoErr /\ Len(XzRecords) >= 1
   /\ decodeXZPure_blocks(input, XzRecords, 1, << >>, junk).err = NoErr)
    => /\ xres.r.err = NoErr
       /\ xres.r.out = decodeXZPure_blocks(input, XzRecords, 1, << >>, junk).out

\* C2: once all of the input has been written to createXZDecoder in any pieces and the
\* stream is ended, it has failed exactly if decodeXZ fails on the input, and otherwise the
\* concatenation of what it pushed is what decodeXZ returns.
C2_StreamEqualsOneShot ==
  (xz.ended /\ xres.called)
    => /\ (xz.err = NoErr) <=> (xres.r.err = NoErr)
       /\ xz.err = NoErr => Flatten(xz.pushed) = xres.r.out

\* C3: for valid streams S1 and S2 and padding of 4k zero bytes, decodeXZ of S1, the padding
\* and S2 is decodeXZ(S1) followed by decodeXZ(S2), and createXZDecoder pushes for it what it
\* pushes for S1 followed by what it pushes for S2.
C3_MultiStreamConcatenation ==
  /\ (xres.called /\ Len(streams) = 2)
       => /\ xres.r.err = NoErr
          /\ xres.r.out = decodeXZ(streams[1], junk).out \o decodeXZ(streams[2], junk).out
  /\ (xz.ended /\ Len(streams) = 2)
       => /\ xz.err = NoErr
          /\ Flatten(xz.pushed) = Flatten(XzStreamed(streams[1]).pushed)
                                  \o Flatten(XzStreamed(streams[2]).pushed)

\* C8: decodeXZ and createXZDecoder succeed on a stream only if every block decoded to the
\* number of bytes its index record states, and neither returns or pushes a block output of
\* another length.
C8_SizeMismatchIsAnError ==
  (Len(streams) = 1 /\ parseStream(input).err = NoErr)
    => /\ (xres.called /\ xres.r.err = NoErr)
            => /\ \A i \in 1..Len(XzRecords) : XzDecodedSize(XzRecords[i]) = XzRecords[i].uncompressedSize
               /\ Len(XzRecords) = 1 => Len(xres.r.out) = XzRecords[1].uncompressedSize
       /\ (xz.ended /\ xz.err = NoErr)
            => \A i \in 1..Len(XzRecords) : XzDecodedSize(XzRecords[i]) = XzRecords[i].uncompressedSize
       /\ xz.ended
            => \A i \in 1..Len(xz.pushed) : Len(xz.pushed[i]) = XzRecords[i].uncompressedSize

\* the output of the LZMA2 decoder for the block of a record
XzLzma2Output(record) ==
  LET blockInfo == parseBlockHeader(input, record.compressedPos)
      dataStart == record.compressedPos + blockInfo.headerSize
  IN  decodeLzma2(Slice(input, dataStart, dataStart + record.compressedDataSize),
                  blockInfo.lzma2Props, record.uncompressedSize, FALSE, junk).out

\* f1_decode(...(fk_decode(data))...) for the filters f1, ..., fk
RECURSIVE FilterChain(_, _)
FilterChain(filters, data) ==
  IF filters = << >> THEN data
  ELSE applyFilter(FilterChain(Tail(filters), data), Head(filters)).data

\* the outputs the declared chains give for the blocks i..n
RECURSIVE XzChainOutputs(_, _)
XzChainOutputs(i, n) ==
  IF i > n THEN << >>
  ELSE << FilterChain(parseBlockHeader(input, XzRecords[i].compressedPos).filters,
                      XzLzma2Output(XzRecords[i])) >>
       \o XzChainOutputs(i + 1, n)

\* C11: for a block that declares the filters f1, ..., fk, LZMA2, what createXZDecoder
\* pushes for the block and what decodeXZ returns for it is f1_decode(...(fk_decode(the LZMA2
\* output))...): the filters are applied last declared first.
C11_FiltersReverseOrder ==
  (Len(streams) = 1 /\ parseStream(input).err = NoErr)
    => /\ xz.ended => xz.pushed = XzChainOutputs(1, Len(xz.pushed))
       /\ (xres.called /\ xres.r.err = NoErr /\ Len(XzRecords) >= 1)
            => \E m \in 1..Len(XzRecords) : xres.r.out = Flatten(XzChainOutputs(1, m))

\* both decoders have decoded two blocks with two filters each, whose order matters
C11_Witness ==
  /\ input = XzFilteredLarge
  /\ xz.ended /\ xz.err = NoErr /\ Len(xz.pushed) = 2
  /\ xres.called /\ xres.r.err = NoErr /\ xres.r.out = Flatten(xz.pushed)
  /\ \A i \in 1..2 :
       LET filters == parseBlockHeader(input, XzRecords[i].compressedPos).filters
       IN  /\ Len(filters) = 2
           /\ xz.pushed[i] # FilterChain(<< filters[2], filters[1] >>, XzLzma2Output(XzRecords[i]))

\* the first block of input that fails (header, LZMA2 data or filter), or one more than the
\* number of blocks
RECURSIVE XzFirstFailing(_)
XzFirstFailing(i) ==
  IF i > Len(XzRecords) THEN i
  ELSE IF decodeXZPure_block(input, XzRecords[i], junk).err # NoErr THEN i
  ELSE XzFirstFailing(i + 1)

\* C17: when createXZDecoder ends with an error on one stream, the error was given to the
\* callback of flush, nothing was pushed if the error is in the container, and otherwise
\* nothing was pushed for the first failing block k or a later one.
C17_ErrorStopsOutput ==
  (Len(streams) = 1 /\ xz.ended /\ xz.err # NoErr)
    => /\ ~xz.thrown
       /\ parseStream(input).err # NoErr => xz.pushed = << >>
       /\ parseStream(input).err = NoErr => Len(xz.pushed) < XzFirstFailing(1)

\* the end of the footer of input: the trailing zero bytes are skipped, not below offset 12,
\* and the offset is then rounded up to a multiple of 4
XzFooterEnd ==
  LET n == Len(input)
      s == IF n <= 12 THEN n
           ELSE CHOOSE k \in 12..n : /\ \A i \in (k + 1)..n : input[i] = 0
                                     /\ (k = 12 \/ input[k] # 0)
  IN  IF s > 12 THEN 4 * ((s + 3) \div 4) ELSE s

\* input is shorter than 12 bytes, does not begin with FD 37 7A 58 5A 00, or has no 59 5A
\* in the two bytes before the end of the footer
XzBadEnvelope ==
  \/ Len(input) < 12
  \/ SubSeq(input, 1, 6) # << 253, 55, 122, 88, 90, 0 >>
  \/ XzFooterEnd > Len(input)
  \/ SubSeq(input, XzFooterEnd - 1, XzFooterEnd) # << 89, 90 >>

\* C19: on an input shorter than 12 bytes, with a wrong header magic, or with a wrong footer
\* magic after the stream padding, decodeXZ and createXZDecoder report an error and emit
\* no output at all.
C19_BadEnvelopeRejected ==
  XzBadEnvelope
    => /\ xres.called => (xres.r.err # NoErr /\ xres.r.out = << >>)
       /\ xz.ended => (xz.err # NoErr /\ xz.pushed = << >>)

\* both decoders have rejected a stream whose footer magic is wrong and followed by padding
C19_Witness ==
  /\ XzBadEnvelope
  /\ Len(input) >= 12 /\ SubSeq(input, 1, 6) = XZ_MAGIC /\ XzFooterEnd < Len(input)
  /\ xres.called /\ xres.r.err = ErrFooterMagic
  /\ xz.ended /\ xz.err = ErrFooterMagic /\ ~xz.thrown

\* the filter ids the header at offset declares: n filters follow the flags byte (the
\* headers of the model carry no sizes), each an id below 128, the size of its properties
\* and the properties
RECURSIVE XzDeclaredIds(_, _)
XzDeclaredIds(offset, n) ==
  IF n = 0 THEN { }
  ELSE { input[offset + 1] } \cup XzDeclaredIds(offset + 2 + input[offset + 2], n - 1)

\* the blocks of input whose header declares a filter id other than 0x03..0x0A and 0x21
XzForeignBlocks ==
  { i \in 1..Len(XzRecords) :
      LET at == XzRecords[i].compressedPos
      IN  XzDeclaredIds(at + 2, (input[at + 2] % 4) + 1) \ ((3..10) \cup { 33 }) # { } }

\* C20: when a block of a stream declares a filter id other than 0x03..0x0A and 0x21, and
\* the blocks before it decode, decodeXZ fails with 'Unsupported filter' and returns
\* nothing, and createXZDecoder fails with it having pushed only the blocks before.
C20_ForeignFilterRejected ==
  (Len(streams) = 1 /\ parseStream(input).err = NoErr /\ XzForeignBlocks # { })
    => \A k \in XzForeignBlocks :
         ((\A i \in XzForeignBlocks : k <= i) /\ XzFirstFailing(1) = k)
           => /\ xres.called => (xres.r.err = ErrUnsupportedFilter /\ xres.r.out = << >>)
              /\ xz.ended => (xz.err = ErrUnsupportedFilter /\ Len(xz.pushed) < k)

\* the filter ids the header at offset declares, in the order of their descriptors
RECURSIVE XzDeclaredSeq(_, _)
XzDeclaredSeq(offset, n) ==
  IF n = 0 THEN << >>
  ELSE << input[offset + 1] >> \o XzDeclaredSeq(offset + 2 + input[offset + 2], n - 1)

\* the blocks of input whose header has an LZMA2 descriptor that is not the last one, or
\* whose last descriptor is not LZMA2
XzMisplacedLzma2 ==
  { i \in 1..Len(XzRecords) :
      LET at == XzRecords[i].compressedPos
          ids == XzDeclaredSeq(at + 2, (input[at + 2] % 4) + 1)
      IN  ids[Len(ids)] # 33 \/ \E j \in 1..(Len(ids) - 1) : ids[j] = 33 }

\* C21: when the header of the first block of a stream declares LZMA2 anywhere but last,
\* decodeXZ fails and returns nothing, and createXZDecoder fails and pushes nothing.
C21_Lzma2MustBeLast ==
  (Len(streams) = 1 /\ parseStream(input).err = NoErr /\ 1 \in XzMisplacedLzma2)
    => /\ xres.called => (xres.r.err # NoErr /\ xres.r.out = << >>)
       /\ xz.ended => (xz.err # NoErr /\ xz.pushed = << >>)

\* C22: a stream whose flags declare a check type other than 0, 1, 4 and 10 is rejected:
\* decodeXZ fails and returns nothing, and createXZDecoder fails and pushes nothing.
C22_CheckTypeRejected ==
  (Len(streams) = 1 /\ ~XzBadEnvelope /\ (input[8] % 16) \notin { 0, 1, 4, 10 })
    => /\ xres.called => (xres.r.err # NoErr /\ xres.r.out = << >>)
       /\ xz.ended => (xz.err # NoErr /\ xz.pushed = << >>)

\* the blocks of input at whose position, as the index gives it, the byte is 0x00
XzZeroBlocks == { i \in 1..Len(XzRecords) : input[XzRecords[i].compressedPos + 1] = 0 }

\* C29: when the byte at the position of a block listed in the index is 0x00, and the
\* blocks before it decode, decodeXZ fails and returns nothing, and createXZDecoder fails
\* having pushed only the blocks before, whether the block is the first or a later one.
C29_ZeroSizeByteRejected ==
  (Len(streams) = 1 /\ parseStream(input).err = NoErr /\ XzZeroBlocks # { })
    => \A k \in XzZeroBlocks :
         ((\A i \in XzZeroBlocks : k <= i) /\ XzFirstFailing(1) = k)
           => /\ xres.called => (xres.r.err # NoErr /\ xres.r.out = << >>)
              /\ xz.ended => (xz.err # NoErr /\ Len(xz.pushed) < k)

\* C30: decodeXZ of a valid stream followed by 4k zero bytes, k >= 0, succeeds and returns
\* what decodeXZ returns for the stream alone, and an input whose index has no records
\* decodes to zero bytes without an error.
C30_TrailingPaddingIgnored ==
  /\ (xres.called /\ Len(streams) = 1 /\ streams[1] \in XzValidStreams)
       => /\ xres.r.err = NoErr
          /\ decodeXZ(streams[1], junk).err = NoErr
          /\ xres.r.out = decodeXZ(streams[1], junk).out
  /\ (xres.called /\ parseStream(input).err = NoErr /\ Len(XzRecords) = 0)
       => (xres.r.err = NoErr /\ xres.r.out = << >>)

\* decodeXZ returned the bytes of a stream that eight zero bytes follow
C30_Witness ==
  /\ xres.called
  /\ streams = << XzOne >>
  /\ input = XzOne \o TrailingPadding(2)
  /\ xres.r.err = NoErr
  /\ xres.r.out # << >>

\* decodeXZ returned no bytes for a stream without blocks that four zero bytes follow
C30_WitnessEmpty ==
  /\ xres.called
  /\ input = XzEmpty \o TrailingPadding(1)
  /\ xres.r.err = NoErr
  /\ xres.r.out = << >>

\* the index of input read on its own: where it starts, and the unpadded sizes it lists
XzIndexStart == XzFooterEnd - 12 - (readUInt32LE(input, XzFooterEnd - 8) + 1) * 4

XzIndexUnpadded ==
  LET count == decodeMultibyte(input, XzIndexStart + 1)
      listed == parseIndex_records(input, XzIndexStart + 1 + count.bytesRead, count.value, << >>)
  IN  [i \in 1..Len(listed.records) |-> listed.records[i].unpaddedSize]

\* 12 + the sum over j < i of ceil(unpadded_j / 4) * 4
XzBlockOffset(unpadded, i) ==
  LET sum[j \in 0..(i - 1)] == IF j = 0 THEN 12 ELSE sum[j - 1] + 4 * ((unpadded[j] + 3) \div 4)
  IN  sum[i - 1]

\* C32: parseIndex places block i at 12 + the sum over j < i of ceil(unpadded_j / 4) * 4
\* and gives it compressedDataSize = unpadded_i - (byte at the position + 1) * 4 - check
\* size, and the positions of the blocks are strictly increasing.
C32_BlockLayout ==
  (xres.called /\ Len(streams) = 1 /\ parseStream(input).err = NoErr)
    => /\ Len(XzRecords) = Len(XzIndexUnpadded)
       /\ \A i \in 1..Len(XzRecords) :
            /\ XzRecords[i].compressedPos = XzBlockOffset(XzIndexUnpadded, i)
            /\ XzRecords[i].compressedPos < Len(input)
                 => XzRecords[i].compressedDataSize
                      = XzIndexUnpadded[i] - (input[XzRecords[i].compressedPos + 1] + 1) * 4
                        - checkSizeOf(input[8] % 16)
       /\ \A i, j \in 1..Len(XzRecords) :
            i < j => XzRecords[i].compressedPos < XzRecords[j].compressedPos

\* C32, amended: parseIndex places block i at 12 + the sum over j < i of
\* ceil(unpadded_j / 4) * 4 and gives it compressedDataSize = unpadded_i - (byte at the
\* position + 1) * 4 - check size; the positions of the blocks are strictly increasing when
\* every unpadded size the index lists is positive.
C32_BlockLayoutPositive ==
  (xres.called /\ Len(streams) = 1 /\ parseStream(input).err = NoErr)
    => /\ Len(XzRecords) = Len(XzIndexUnpadded)
       /\ \A i \in 1..Len(XzRecords) :
            /\ XzRecords[i].compressedPos = XzBlockOffset(XzIndexUnpadded, i)
            /\ XzRecords[i].compressedPos < Len(input)
                 => XzRecords[i].compressedDataSize
                      = XzIndexUnpadded[i] - (input[XzRecords[i].compressedPos + 1] + 1) * 4
                        - checkSizeOf(input[8] % 16)
       /\ (\A k \in 1..Len(XzRecords) : XzIndexUnpadded[k] > 0)
            => \A i, j \in 1..Len(XzRecords) :
                 i < j => XzRecords[i].compressedPos < XzRecords[j].compressedPos

\* decodeXZ has parsed an index of two blocks whose unpadded sizes, 22, are no multiples of 4
C32_Witness ==
  /\ xres.called
  /\ streams = << XzZeroSecond >>
  /\ parseStream(input).err = NoErr
  /\ XzIndexUnpadded = << 22, 22 >>
  /\ XzRecords[2].compressedPos = 36

(***************************************************************************)
(* Properties of the filters, checked under SpecFilter                     *)
(***************************************************************************)
\* C12: for every input, every Delta distance and every partition into chunks, what
\* createDeltaDecoder has pushed after any number of chunks is decodeDelta of the bytes
\* written so far, its byte index is their number and its state array has distance entries;
\* with the whole input written, the output is what decodeDelta returns for the input.
C12_DeltaStreamEqualsOneShot ==
  filter.id = FILTER_DELTA
    => /\ Flatten(ft.pushed) = decodeDelta(Slice(input, 0, fed), filter.props)
       /\ ft.byteIndex = fed
       /\ Len(ft.state) = ft.distance
       /\ (fed = Len(input) /\ fres.called) => Flatten(ft.pushed) = fres.out

\* an input of distance 2 written in three or more chunks, which the filter changes
C12_Witness ==
  /\ filter = [id |-> FILTER_DELTA, props |-> << 1 >>]
  /\ fed = Len(input) /\ ft.ended /\ Len(ft.pushed) >= 3
  /\ fres.called /\ fres.out # input /\ Flatten(ft.pushed) = fres.out

\* C13: x86Code in encode direction from the initial state, followed by x86Code in decode
\* direction from the initial state, returns every buffer unchanged.
C13_X86RoundTrip == rt.called => rt.out = input

\* a buffer whose second E8 is converted after the first was not (prevMask is not 0)
C13_Witness ==
  /\ input = << 232, 232, 255, 255, 232, 0 >>
  /\ rt.called /\ rt.encoded # input /\ rt.out = input

\* C14: for every input and every partition into chunks, the concatenation of what
\* createBcjDecoder pushed, flush included, is decodeBcj of the whole input.
C14_X86StreamEqualsOneShot ==
  (filter.id = FILTER_BCJ_X86 /\ ft.ended)
    => /\ Flatten(ft.pushed) = decodeBcj(input)
       /\ fres.called => Flatten(ft.pushed) = fres.out

\* an input written in three or more chunks in which the decoder converts an address
C14_Witness ==
  /\ filter.id = FILTER_BCJ_X86 /\ ft.ended /\ Len(ft.pushed) >= 4
  /\ Flatten(ft.pushed) # input /\ fres.called /\ Flatten(ft.pushed) = fres.out

\* C15: after every push to a streaming BCJ decoder, the number of bytes it has received
\* and not yet emitted is at most 15 for IA64 and at most 4 for the other filters.
C15_PendingBounded ==
  (filter.id \in { FILTER_BCJ_X86, FILTER_BCJ_PPC, FILTER_BCJ_IA64 } /\ ~ft.ended)
    => fed - Len(Flatten(ft.pushed)) <= IF filter.id = FILTER_BCJ_IA64 THEN 15 ELSE 4

\* bit i of the byte b
BitOf(b, i) == (b \div Pow2(i)) % 2

\* bit k (0..127) of the bundle that starts at byte offset pos of data
BundleBit(data, pos, k) == BitOf(data[pos + (k \div 8) + 1], k % 8)

\* the bits of a bundle that are not immediate bits of a slot: the template (bits 0..4) and,
\* of the 41 bits of each slot, all but the bits 13..32 and 36
FrameBits ==
  { k \in 0..127 : k < 5 \/ ~(((k - 5) % 41) \in 13..32 \/ ((k - 5) % 41) = 36) }

\* C16: decodeBcjIa64 returns a buffer of the length of its input in which the template
\* bits and all bits of the three slots other than the immediate bits 13..32 and 36 of every
\* complete bundle, and the bytes after the last complete bundle, are those of the input.
C16_Ia64Frame ==
  (filter.id = FILTER_BCJ_IA64 /\ fres.called)
    => /\ Len(fres.out) = Len(input)
       /\ \A b \in 0..((Len(input) \div 16) - 1) :
            \A k \in FrameBits : BundleBit(fres.out, 16 * b, k) = BundleBit(input, 16 * b, k)
       /\ \A j \in (16 * (Len(input) \div 16) + 1)..Len(input) : fres.out[j] = input[j]

\* an input with trailing bytes in whose second bundle the decoder rewrites the immediate
C16_Witness ==
  /\ filter.id = FILTER_BCJ_IA64 /\ fres.called /\ Len(input) = 34
  /\ \E k \in 0..127 : BundleBit(fres.out, 16, k) # BundleBit(input, 16, k)

(***************************************************************************)
(* Properties of the LZMA2 decoders, checked under Spec                    *)
(***************************************************************************)
\* C4: for a well-formed LZMA2 stream written to createLzma2Decoder in any pieces, the
\* Transform does not fail, and once it has taken the whole stream the concatenation of what
\* it pushed is the Buffer decodeLzma2 returns for the stream.
C4_StreamEqualsSync ==
  (IsWellFormed(input) /\ res.called /\ (lz2.ended \/ lz2.err # NoErr))
    => /\ lz2.err = NoErr
       /\ res.r.err = NoErr
       /\ Flatten(lz2.pushed) = res.r.out

\* the offset of the first chunk of in, from off on, whose control byte is in 0x03..0x7F,
\* found by stepping over the chunks before it; -1 when the end byte or the end of in
\* comes first
RECURSIVE Lzma2ReservedAt(_, _)
Lzma2ReservedAt(in, off) ==
  IF off >= Len(in) \/ in[off + 1] = 0 THEN -1
  ELSE IF in[off + 1] \in 3..127 THEN off
  ELSE IF in[off + 1] <= 2
    THEN IF off + 3 > Len(in) THEN -1
         ELSE Lzma2ReservedAt(in, off + 3 + in[off + 2] * 256 + in[off + 3] + 1)
  ELSE LET h == IF in[off + 1] >= 192 THEN 6 ELSE 5
       IN  IF off + h > Len(in) THEN -1
           ELSE Lzma2ReservedAt(in, off + h + in[off + 4] * 256 + in[off + 5] + 1)

\* C23: when a chunk with a control byte in 0x03..0x7F follows chunks that decode, decodeLzma2
\* (Buffer and sink) and createLzma2Decoder fail with 'Invalid LZMA2 control byte', and
\* their output is no longer than the output of the chunks before.
C23_ReservedControlRejected ==
  LET at == Lzma2ReservedAt(input, 0)
      before == decodeLzma2(SubSeq(input, 1, at) \o << 0 >>, Properties, 0, FALSE, junk)
  IN  (at >= 0 /\ before.err = NoErr)
        => /\ res.called => (res.r.err = ErrInvalidControl /\ res.r.out = << >>)
           /\ sres.called => (sres.r.err = ErrInvalidControl
                               /\ Len(sres.r.written) <= Len(before.out))
           /\ fed = Len(input) => lz2.err = ErrInvalidControl
           /\ Len(Flatten(lz2.pushed)) <= Len(before.out)

\* the three decoders have rejected a reserved control byte that follows a chunk
C23_Witness ==
  /\ Lzma2ReservedAt(input, 0) > 0 /\ fed = Len(input)
  /\ res.called /\ res.r.err = ErrInvalidControl
  /\ sres.called /\ sres.r.err = ErrInvalidControl
  /\ lz2.err = ErrInvalidControl /\ Len(Flatten(lz2.pushed)) = 1

\* the offset of the first complete LZMA chunk of in, from off on, that has a control byte in
\* 0x80..0xBF while no chunk before it carried a properties byte; -1 when there is none
RECURSIVE Lzma2NoPropsAt(_, _)
Lzma2NoPropsAt(in, off) ==
  IF off >= Len(in) \/ in[off + 1] = 0 \/ in[off + 1] \in 3..127 \/ in[off + 1] >= 192 THEN -1
  ELSE IF in[off + 1] <= 2
    THEN IF off + 3 > Len(in) THEN -1
         ELSE Lzma2NoPropsAt(in, off + 3 + in[off + 2] * 256 + in[off + 3] + 1)
  ELSE IF off + 5 + in[off + 4] * 256 + in[off + 5] + 1 > Len(in) THEN -1
  ELSE off

\* C24: when a complete LZMA chunk with a control byte in 0x80..0xBF comes before any chunk
\* with a properties byte, decodeLzma2 (Buffer and sink) and createLzma2Decoder fail with
\* 'LZMA chunk without properties'.
C24_MissingPropertiesRejected ==
  Lzma2NoPropsAt(input, 0) >= 0
    => /\ res.called => res.r.err = ErrNoProperties
       /\ sres.called => sres.r.err = ErrNoProperties
       /\ fed = Len(input) => lz2.err = ErrNoProperties

\* the offset of the first complete LZMA chunk of in, from off on, whose properties byte
\* gives pb > 4 (a byte of 225 or more; lc and lp of a byte are never above 8 and 4), the
\* chunks before it carrying valid properties; -1 when there is none
RECURSIVE Lzma2BadPropsAt(_, _)
Lzma2BadPropsAt(in, off) ==
  IF off >= Len(in) \/ in[off + 1] = 0 \/ in[off + 1] \in 3..127 THEN -1
  ELSE IF in[off + 1] <= 2
    THEN IF off + 3 > Len(in) THEN -1
         ELSE Lzma2BadPropsAt(in, off + 3 + in[off + 2] * 256 + in[off + 3] + 1)
  ELSE LET h == IF in[off + 1] >= 192 THEN 6 ELSE 5
           next == off + h + in[off + 4] * 256 + in[off + 5] + 1
       IN  IF off + h > Len(in) \/ next > Len(in) THEN -1
           ELSE IF in[off + 1] >= 192 /\ in[off + 6] >= 225 THEN off
           ELSE Lzma2BadPropsAt(in, next)

\* C25: when an LZMA2 chunk carries a properties byte with pb > 4, decodeLzma2 (Buffer and
\* sink) and createLzma2Decoder fail and decode nothing of that chunk.
C25_InvalidPropertiesRejected ==
  LET at == Lzma2BadPropsAt(input, 0)
      decoded(log) == \E i \in 1..Len(log) : log[i].off = at /\ log[i].count > 0
  IN  at >= 0
        => /\ res.called => (res.r.err # NoErr /\ ~decoded(res.r.log))
           /\ sres.called => (sres.r.err # NoErr /\ ~decoded(sres.r.log))
           /\ fed = Len(input) => (lz2.err # NoErr /\ ~decoded(lz2.log))

\* in ends, from off on, before an end byte: stepping over complete chunks reaches the end
\* of in, or a chunk whose header or payload is cut short
RECURSIVE Lzma2Truncated(_, _)
Lzma2Truncated(in, off) ==
  IF off >= Len(in) THEN TRUE
  ELSE IF in[off + 1] = 0 \/ in[off + 1] \in 3..127 THEN FALSE
  ELSE IF in[off + 1] <= 2
    THEN off + 3 > Len(in) \/ Lzma2Truncated(in, off + 3 + in[off + 2] * 256 + in[off + 3] + 1)
  ELSE LET h == IF in[off + 1] >= 192 THEN 6 ELSE 5
       IN  off + h > Len(in) \/ Lzma2Truncated(in, off + h + in[off + 4] * 256 + in[off + 5] + 1)

\* C26: on an input that ends before the end byte, decodeLzma2 (Buffer and sink) fails, and
\* createLzma2Decoder has failed once flush has run.
C26_TruncationRejected ==
  Lzma2Truncated(input, 0)
    => /\ res.called => res.r.err # NoErr
       /\ sres.called => sres.r.err # NoErr
       /\ lz2.ended => lz2.err # NoErr

\* no LZMA chunk of log that decoded without error had its range decoder read at or past
\* the end of its input, which has len bytes counted from the first byte of the chunk's
\* payload when sliced, and from the first byte of the stream otherwise
NoReadPastEnd(log, sliced) ==
  \A i \in 1..Len(log) :
    (log[i].chunk.type = "lzma" /\ log[i].err = NoErr)
      => LET dataOffset == log[i].off + log[i].chunk.headerSize
         IN  IF sliced THEN log[i].consumed <= Min(log[i].chunk.compSize, Len(input) - dataOffset)
             ELSE dataOffset + log[i].consumed <= Len(input)

\* C27: a chunk is decoded without error only if the range decoder never read a byte at or
\* past the end of its input: the payload slice in decodeLzma2 without an unpack size, the
\* whole stream in decodeLzma2 with one and with a sink.
C27_RangeDecoderChecksEnd ==
  /\ NoReadPastEnd(res.r.log, res.unpackSize = 0)
  /\ NoReadPastEnd(sres.r.log, FALSE)

\* a chunk without dictionary reset finds the dictionary and totalPos the chunk before left
DictionaryKept(log) ==
  \A i \in 2..Len(log) :
    ~log[i].chunk.dictReset
      => /\ log[i].totalPos = log[i - 1].totalPos + log[i - 1].count
         /\ log[i].window = log[i - 1].window \o log[i - 1].dict

\* C5: in decodeLzma2 (Buffer and sink) and in createLzma2Decoder, a chunk with dict_reset =
\* false is decoded with the dictionary contents and total_pos that the chunks since the last
\* dictionary reset produced, LZMA chunks and uncompressed chunks alike.
C5_DictionaryPreserved ==
  /\ DictionaryKept(res.r.log)
  /\ DictionaryKept(sres.r.log)
  /\ DictionaryKept(lz2.log)

\* C6: decodeLzma2 with a sink writes to the sink the bytes that decodeLzma2 without a sink
\* returns for the same input, and returns the number of bytes written.
C6_SinkEqualsBuffer ==
  (sres.called /\ res.called /\ res.r.err = NoErr)
    => /\ sres.r.err = NoErr
       /\ sres.r.written = res.r.out
       /\ sres.r.ret = Len(sres.r.written)

\* every LZMA chunk that decoded without error produced uncompSize bytes from compSize bytes
ChunkSizesExact(log) ==
  \A i \in 1..Len(log) :
    (log[i].chunk.type = "lzma" /\ log[i].err = NoErr)
      => /\ log[i].count = log[i].chunk.uncompSize
         /\ log[i].consumed = log[i].chunk.compSize

\* C7: an LZMA chunk that the core decodes without error produced exactly the declared
\* uncomp_size bytes and the range decoder consumed exactly the declared comp_size bytes.
C7_ChunkSizesExact ==
  /\ ChunkSizesExact(res.r.log)
  /\ ChunkSizesExact(sres.r.log)

\* a match is copied only with a distance inside the decoded data and the dictionary, and a
\* match that is refused emits nothing (copied = 0 is recorded where the decoder throws)
DistancesChecked(matches) ==
  \A i \in 1..Len(matches) :
    matches[i].copied > 0
      => /\ matches[i].rep0 >= 0
         /\ matches[i].rep0 + 1 <= matches[i].cumPos
         /\ matches[i].rep0 < matches[i].dictionarySize

\* C9: every match, rep match and short rep of distance d (an unsigned 32-bit number, held
\* by the decoder as a signed one) is copied only if d + 1 <= total_pos and d < dictionary
\* size.
C9_DistanceChecked ==
  /\ DistancesChecked(res.r.matches)
  /\ DistancesChecked(sres.r.matches)

\* C10: the output of decodeLzma2 from a chunk with control >= 0xE0 onward is the output of
\* decodeLzma2 for the input from that chunk onward, decoded alone with the same properties.
C10_ResetIndependence ==
  (res.called /\ res.r.err = NoErr)
    => \A i \in 1..Len(res.r.log) :
         res.r.log[i].chunk.control >= 224
           => /\ decodeLzma2(Slice(input, res.r.log[i].off, Len(input)), Properties,
                             IF res.unpackSize = 0 THEN 0 ELSE DeclaredSize(input, res.r.log[i].off),
                             FALSE, junk).err = NoErr
              /\ decodeLzma2(Slice(input, res.r.log[i].off, Len(input)), Properties,
                             IF res.unpackSize = 0 THEN 0 ELSE DeclaredSize(input, res.r.log[i].off),
                             FALSE, junk).out
                 = SubSeq(res.r.out, res.r.log[i].outputPos + 1, Len(res.r.out))

(***************************************************************************)
(* Properties of the LZMA core, checked under SpecCore                     *)
(***************************************************************************)
\* the state the table of the state machine gives after an event in state s
StateAfter(event, s) ==
  IF event = "literal" THEN (IF s < 4 THEN 0 ELSE IF s < 10 THEN s - 3 ELSE s - 6)
  ELSE IF event = "match" THEN (IF s < 7 THEN 7 ELSE 10)
  ELSE IF event = "shortrep" THEN (IF s < 7 THEN 9 ELSE 11)
  ELSE (IF s < 7 THEN 8 ELSE 11)

\* C34: the state of the LZMA core is always in 0..11; after each event it is the table
\* value (literal: 0 if state < 4, state - 3 if state < 10, else state - 6; match: 7 or 10;
\* rep: 8 or 11; short rep: 9 or 11, the first value when the state before was < 7); and
\* state < 7 holds exactly when the last event since the last state reset was a literal or
\* there was no event.
C34_StateTable ==
  core.pc # "idle" =>
    /\ core.m.state \in 0..11
    /\ core.event # "none" => core.m.state = StateAfter(core.event, core.before.state)
    /\ core.m.state < 7 <=> core.event \in { "literal", "none" }

\* a literal decoded in state 10 or 11 (after a match that followed a match or rep) leads
\* to state 4 or 5
C34_Witness ==
  /\ core.event = "literal"
  /\ core.before.state >= 10
  /\ core.m.state = core.before.state - 6
  /\ core.m.err = NoErr

\* rep0..rep3 of the decoder as a tuple
CoreReps(r) == << r.rep0, r.rep1, r.rep2, r.rep3 >>

\* the rep queue after a rep match that selects rep_k: rep_k in front, the ones before it
\* one place down
RepsPromoted(reps, k) ==
  [i \in 1..4 |-> IF i = 1 THEN reps[k + 1] ELSE IF i <= k + 1 THEN reps[i - 1] ELSE reps[i]]

\* the number of times d occurs in the rep queue
RepCount(reps, d) == Cardinality({ i \in 1..4 : reps[i] = d })

\* C35: a literal and a short rep leave rep0..rep3 unchanged; a rep match that selects rep_k
\* moves rep_k to rep0 and shifts rep0..rep_(k-1) down by one place, so the multiset of the
\* four distances is unchanged; a normal match sets (rep1, rep2, rep3) to the old
\* (rep0, rep1, rep2) and rep0 to the distance it decoded: the one the copy is made with, or
\* -1 (0xFFFFFFFF) when the match is the end marker.
C35_RepQueue ==
  LET old == CoreReps(core.before)
      new == CoreReps(core.m)
      k == CHOOSE i \in 0..3 : core.event = << "rep0", "rep1", "rep2", "rep3" >>[i + 1]
  IN  /\ core.event \in { "literal", "shortrep" } => new = old
      /\ core.event \in { "rep0", "rep1", "rep2", "rep3" }
           => /\ new = RepsPromoted(old, k)
              /\ \A d \in { old[i] : i \in 1..4 } : RepCount(new, d) = RepCount(old, d)
      /\ core.event = "match"
           => /\ << new[2], new[3], new[4] >> = << old[1], old[2], old[3] >>
              /\ \/ new[1] = -1
                 \/ /\ core.m.matches # << >>
                    /\ new[1] = core.m.matches[Len(core.m.matches)].rep0

\* a rep match selects rep3 out of four different distances
C35_Witness ==
  /\ core.event = "rep3"
  /\ Cardinality({ core.before.rep0, core.before.rep1, core.before.rep2, core.before.rep3 }) = 4
  /\ CoreReps(core.m) = << core.before.rep3, core.before.rep0, core.before.rep1, core.before.rep2 >>
  /\ core.m.err = NoErr

\* C36: starting from 1024, the probability stays within [31, 2017] after any number of
\* decodeBit updates, and the bound (range >>> 11) * prob of the next decodeBit is strictly
\* between 0 and range.
C36_ProbabilityBounds ==
  call.apply = "decodeBit" =>
    LET prob == GetProb(call.r.probs, 0)
        bound == MulShr11(call.r.range, prob)
    IN  /\ prob >= 31 /\ prob <= 2017
        /\ Lt32(<< 0, 0 >>, bound)
        /\ Lt32(bound, call.r.range)

\* a run of 1 bits has brought the probability down to 31, and the next 1 bit leaves it there
C36_Witness ==
  /\ call.fn = "decodeBit"
  /\ call.r.bit = 1
  /\ GetProb(call.r.probs, 0) = 31
  /\ call.offset > 127

\* a run of 0 bits has brought the probability up to 2017
C36_WitnessUp ==
  /\ call.fn = "decodeBit"
  /\ call.r.bit = 0
  /\ GetProb(call.r.probs, 0) = 2017

\* C37: every byte the LZMA core reads from the dictionary lies at a distance smaller than
\* the number of bytes written since the last dictionary reset (cumPos at the time of the
\* read): the match byte of a literal decoded in a state >= 7 is read at the distance rep0,
\* and the bytes of a match, a rep match and a short rep are copied from the distance rep0.
C37_DictionaryReads ==
  /\ (core.event = "literal" /\ core.before.state >= 7) => core.before.rep0 < core.before.cumPos
  /\ \A i \in 1..Len(core.m.matches) :
       core.m.matches[i].copied > 0 => core.m.matches[i].rep0 < core.m.matches[i].cumPos

\* the number of bytes chunk i of a decode contributed to its result, by its log
LogContributed(r, i) ==
  (IF i < Len(r.log) THEN r.log[i + 1].outputPos ELSE Len(r.out)) - r.log[i].outputPos

\* C38: every byte of the Buffer LzmaDecoder.decode returns was written by the decoder, and
\* when the decoding stops at an end marker after m < outSize bytes the Buffer has length m.
\* Lzma2Decoder.decode without unpackSize concatenates what LzmaDecoder.decode returns for
\* each LZMA chunk: none of the bytes of the result is a byte of the allocation that was
\* never written, and a chunk that wrote fewer bytes than it declares contributes the bytes
\* it wrote.
C38_ReturnsWrittenBytes ==
  (res.called /\ res.unpackSize = 0 /\ res.r.err = NoErr) =>
     /\ \A i \in 1..Len(res.r.out) : res.r.out[i] # Uninit
     /\ \A i \in 1..Len(res.r.log) :
          (res.r.log[i].chunk.type = "lzma" /\ res.r.log[i].count < res.r.log[i].chunk.uncompSize)
            => LogContributed(res.r, i) = res.r.log[i].count

\* C39: the flush of createXZDecoder invokes its callback exactly once for every buffered
\* input: when flush has run it has called back, with the error if there is one, and no
\* error has left flush as an exception.
C39_FlushCallsBack ==
  xz.ended => ~xz.thrown

(***************************************************************************)
(* tryNativeDecode (utils/runDecode.ts)                                    *)
(***************************************************************************)
\* a size test that accepts every value
matchesAnySize(value, expectedSize) == TRUE

\* matchesExpectedSize(value, expectedSize)
matchesExpectedSize(value, expectedSize) ==
  IF ~expectedSize.given \/ expectedSize.n < 0 THEN TRUE
  ELSE IF value.isBuffer THEN value.length = expectedSize.n
  ELSE TRUE

\* the sync half of tryNativeDecode: a size mismatch is thrown and caught like an exception
\* of decompressSync
tryNativeDecode_sync(N) ==
  IF N.decompressSync = "returns" /\ matchesExpectedSize(N.value, N.expectedSize)
    THEN [N EXCEPT !.pc = "scheduled", !.returned = "true"]
    ELSE [N EXCEPT !.pc = "done", !.returned = "false"]

\* tryNativeDecode(methods, input, callback, fallback, expectedSize) up to its return: a
\* promise of decompress gets the two handlers; an exception of decompress and a value that
\* is no thenable lead on to decompressSync
tryNativeDecode(N) ==
  IF ~N.methods THEN [N EXCEPT !.pc = "done", !.returned = "false"]
  ELSE IF N.decompress \in { "resolves", "rejects" }
    THEN [N EXCEPT !.pc = "promise", !.returned = "true"]
  ELSE tryNativeDecode_sync(N)

\* the handlers given to then(): the fulfilment handler calls fallback on a size mismatch
\* and callback otherwise, the rejection handler calls fallback
tryNativeDecode_settled(N) ==
  IF N.decompress = "resolves" /\ matchesExpectedSize(N.value, N.expectedSize)
    THEN [N EXCEPT !.callbacks = Append(N.callbacks, N.value), !.pc = "done"]
    ELSE [N EXCEPT !.fallbacks = N.fallbacks + 1, !.pc = "done"]

\* the task given to schedule(): callback(null, value)
tryNativeDecode_scheduled(N) ==
  [N EXCEPT !.callbacks = Append(N.callbacks, N.value), !.pc = "done"]

NativeValues == [isBuffer : BOOLEAN, length : 0..2]

NativeExpectedSizes == { [given |-> FALSE, n |-> 0] } \cup [given : { TRUE }, n : -1..2]

InitNative ==
  /\ \E methods \in BOOLEAN,
        decompress \in { "absent", "throws", "value", "resolves", "rejects" },
        decompressSync \in { "absent", "throws", "returns" },
        value \in NativeValues, expectedSize \in NativeExpectedSizes :
       ncall = [NoNative EXCEPT
                  !.methods = methods,
                  !.decompress = IF methods THEN decompress ELSE "absent",
                  !.decompressSync = IF methods THEN decompressSync ELSE "absent",
                  !.value = value, !.expectedSize = expectedSize]
  /\ input = << >>
  /\ streams = << >>
  /\ junk = 0
  /\ fed = 0
  /\ lz2 = createLzma2Decoder(Properties, 0)
  /\ res = NoCall
  /\ sres = NoCall
  /\ xz = createXZDecoder
  /\ xres = NoXzCall
  /\ filter = NoFilter
  /\ ft = createBufferingDecoder
  /\ fres = NoFilterCall
  /\ rt = NoFilterCall
  /\ run = NoRun
  /\ call = NoPureCall
  /\ core = NoCore

\* the call of tryNativeDecode
NativeCall ==
  /\ ncall.pc = "idle"
  /\ ncall' = tryNativeDecode(ncall)
  /\ UNCHANGED << input, fed, filterVars, lzVars, run, call, core >>

\* the promise of decompress settles and its handler runs
NativeSettle ==
  /\ ncall.pc = "promise"
  /\ ncall' = tryNativeDecode_settled(ncall)
  /\ UNCHANGED << input, fed, filterVars, lzVars, run, call, core >>

\* the scheduled task runs
NativeImmediate ==
  /\ ncall.pc = "scheduled"
  /\ ncall' = tryNativeDecode_scheduled(ncall)
  /\ UNCHANGED << input, fed, filterVars, lzVars, run, call, core >>

NextNative == NativeCall \/ NativeSettle \/ NativeImmediate

SpecNative == InitNative /\ [][NextNative]_vars

\* a promise settles and setImmediate (or process.nextTick) runs its task
SpecNativeFair == SpecNative /\ WF_vars(NativeSettle) /\ WF_vars(NativeImmediate)

\* the number of invocations of callback and fallback so far
NativeInvocations == Len(ncall.callbacks) + ncall.fallbacks

\* after the result false neither callback nor fallback is invoked; after true at most one
\* invocation is made in all
NativeAtMostOnce ==
  /\ ncall.returned = "false" => NativeInvocations = 0
  /\ NativeInvocations <= 1

\* exactly one of callback and fallback has been invoked, exactly once
NativeHandled == ncall.pc = "done" /\ NativeInvocations = 1

\* C40 as stated: if tryNativeDecode returns true, exactly one of callback and fallback is
\* eventually invoked, exactly once, and callback only with a native result whose length
\* is expectedSize when one (a number that is not negative) is given; if it returns false
\* neither is ever invoked.
C40_NativeDecode ==
  /\ [](/\ NativeAtMostOnce
        /\ \A i \in 1..Len(ncall.callbacks) :
             (ncall.expectedSize.given /\ ncall.expectedSize.n >= 0)
               => ncall.callbacks[i].length = ncall.expectedSize.n)
  /\ (ncall.returned = "true") ~> NativeHandled

\* C40 for the results the size test applies to: the same, with callback invoked only with
\* a native result that is no Buffer or whose length is expectedSize when one is given.
C40_NativeDecodeBuffers ==
  /\ [](/\ NativeAtMostOnce
        /\ \A i \in 1..Len(ncall.callbacks) :
             (ncall.expectedSize.given /\ ncall.expectedSize.n >= 0 /\ ncall.callbacks[i].isBuffer)
               => ncall.callbacks[i].length = ncall.expectedSize.n)
  /\ (ncall.returned = "true") ~> NativeHandled

\* a promise resolved with a Buffer of the expected size 2 and callback received it
C40_Witness ==
  /\ ncall.returned = "true" /\ ncall.decompress = "resolves" /\ ncall.pc = "done"
  /\ ncall.expectedSize = [given |-> TRUE, n |-> 2]
  /\ ncall.callbacks = << [isBuffer |-> TRUE, length |-> 2] >>
  /\ ncall.fallbacks = 0

=============================================================================
